---- MODULE Spec2Model ----
(***************************************************************************)
(* image-to-scad: the configuration object (config.py), the depth         *)
(* analyzer (pipeline/depth_analyzer.py) and the relief mesh of the        *)
(* OpenSCAD generator, as a state machine.                                 *)
(*                                                                         *)
(* Numbers.  Floating-point values are modelled as exact rationals:       *)
(*   - detail_level is counted in quarters (0.5 = 2, 1.0 = 4, 2.0 = 8);    *)
(*     quarters are exact in binary, so int(rows * detail_level) is        *)
(*     (rows * detail) \div 4;                                             *)
(*   - depth values are integers in units of 1e-7 over a denominator       *)
(*     (Grid.den), so the flat-field threshold 1e-6 is 10 units;           *)
(*   - millimetre quantities are integers over a denominator.              *)
(* Rounding of float32 arithmetic is not modelled.                         *)
(*                                                                         *)
(* Grids.  A 2-D array is [rows, cols, cells, den].  An axis of length 1   *)
(* or 2 is held cell by cell; a longer axis (at least 6 cells) is held as  *)
(* two blocks of equal value, each at least 3 cells wide, and `cells` then *)
(* holds one value per block (the value of the block's interior cells).    *)
(* The value of a cell is cells[i, j] / den.                               *)
(***************************************************************************)
EXTENDS Integers, Sequences, FiniteSets, TLC

VARIABLES
    cfg,        \* the caller's ConversionConfig object, or NoConfig
    built,      \* outcome of the last ConversionConfig(...) / from_dict call
    pc,         \* position inside DepthAnalyzer.analyze ("idle": no call)
    depth_map,  \* analyze's argument depth_map
    heights,    \* analyze's local variable heights
    stepIn,     \* the value of heights before the last step that ran
    ran,        \* the steps of analyze that have run, in order
    result,     \* what analyze returned or raised
    gpc,        \* position inside the mesh builder ("idle": no call)
    field,      \* the height grid handed to the mesh builder
    mesh,       \* the mesh built, or the error raised
    est,        \* the DepthEstimator object (Converter._depth_estimator), or NoEstimator
    loads,      \* models loaded by est since its construction or last release
    last,       \* the last two estimator operations completed, oldest first
    epc,        \* position inside DepthEstimator.estimate ("idle": no call)
    image,      \* estimate's argument image
    eres,       \* what estimate returned or raised
    cpc,        \* position inside Converter.convert ("idle": no call)
    cargs,      \* convert's arguments
    clocals,    \* convert's local variables
    cres,       \* what convert returned or raised
    xpc,        \* position inside STLExporter.export ("idle": no call)
    xself,      \* the STLExporter object, its system and export's arguments
    xres,       \* what export returned or raised
    mpc,        \* position inside cli.main ("idle": not running)
    margs,      \* the command line, the entry point and main's locals
    mres,       \* what main returned, or the exception that left it
    stderr,     \* what main printed on the standard error stream
    status,     \* the exit status of the process, once it has exited
    reqs,       \* the analyze requests that run concurrently
    shared      \* a Converter and the calls that run on it concurrently

vars ==
    <<cfg, built, pc, depth_map, heights, stepIn, ran, result,
      gpc, field, mesh, est, loads, last, epc, image, eres,
      cpc, cargs, clocals, cres,
      xpc, xself, xres, mpc, margs, mres, stderr, status, reqs, shared>>

----------------------------------------------------------------------------
(* Bounds of the model *)

\* rows and columns of the height grids handed to the mesh builder
MaxMeshDim == 3

(* Program constants *)

\* detail_level == 1.0, in quarters
DetailOne == 4
\* 0.5 <= detail_level <= 2.0, in quarters
MinDetail == 2
MaxDetail == 8
\* max(32, min(2048, n))
MinDim == 32
MaxDim == 2048
\* h_max - h_min < 1e-6, in units of 1e-7
FlatEps == 10
\* _smooth(heights, kernel_size = 5)
KernelSize == 5
\* image_loader.py: MIN_DIMENSION, MAX_DIMENSION, DEFAULT_MAX_DIMENSION
MinDimension == 64
MaxDimension == 4096
DefaultMaxDimension == 1024
\* stl_exporter.py: DEFAULT_RENDER_TIMEOUT, in seconds
DefaultRenderTimeout == 300

----------------------------------------------------------------------------
(* Exceptions (exceptions.py, and the built-in classes the code raises) *)

\* the base class of each exception class
BaseOf(c) ==
    CASE c \in {"ImageLoadError", "DepthEstimationError", "DepthAnalysisError",
                "OpenSCADGenerationError", "STLExportError",
                "ConfigurationError"} -> "ImageToScadError"
      [] c \in {"ImageToScadError", "ValueError", "OSError", "ImportError",
                "RuntimeError", "AttributeError"} -> "Exception"
      [] c = "FileNotFoundError" -> "OSError"
      [] c = "TimeoutExpired" -> "Exception"
      [] c \in {"Exception", "KeyboardInterrupt", "SystemExit"} -> "BaseException"
      [] OTHER -> "object"

\* issubclass(c, b)
RECURSIVE IsSubclass(_, _)
IsSubclass(c, b) ==
    IF c = b THEN TRUE
    ELSE IF c \in {"BaseException", "object"} THEN FALSE
    ELSE IsSubclass(BaseOf(c), b)

Raised(exc, msg) == [kind |-> "raise", exc |-> exc, msg |-> msg]

----------------------------------------------------------------------------
(* ConversionConfig (config.py) *)

NoConfig == [kind |-> "None"]

DefaultArgs ==
    [base_thickness |-> 2, max_height |-> 15, model_width |-> 100,
     detail_level |-> DetailOne, smoothing |-> TRUE, invert_depth |-> FALSE,
     output_style |-> "relief"]

FieldNames ==
    {"base_thickness", "max_height", "model_width", "detail_level",
     "smoothing", "invert_depth", "output_style"}

\* the values the model passes for each field
FieldValues(f) ==
    CASE f = "base_thickness" -> {0, 2}
      [] f = "max_height"     -> {0, 15}
      [] f = "model_width"    -> {-50, 100}
      [] f = "detail_level"   -> {1, 2, 3, 4, 8, 10}
      [] f = "smoothing"      -> BOOLEAN
      [] f = "invert_depth"   -> BOOLEAN
      [] f = "output_style"   -> {"relief", "invalid"}

\* __post_init__ with base_thickness < 0 in place of <= 0
PostInitAcceptsZero(a) ==
    IF a.base_thickness < 0 THEN "base_thickness must be positive"
    ELSE IF a.max_height <= 0 THEN "max_height must be positive"
    ELSE IF a.model_width <= 0 THEN "model_width must be positive"
    ELSE IF ~(MinDetail <= a.detail_level /\ a.detail_level <= MaxDetail)
         THEN "detail_level must be between 0.5 and 2.0"
    ELSE IF a.output_style \notin {"relief"} THEN "Unsupported output_style"
    ELSE "ok"

\* ConversionConfig.__post_init__: the message of the ValueError raised, or "ok"
PostInit(a) ==
    IF a.base_thickness <= 0 THEN "base_thickness must be positive"
    ELSE IF a.max_height <= 0 THEN "max_height must be positive"
    ELSE IF a.model_width <= 0 THEN "model_width must be positive"
    ELSE IF ~(MinDetail <= a.detail_level /\ a.detail_level <= MaxDetail)
         THEN "detail_level must be between 0.5 and 2.0"
    ELSE IF a.output_style \notin {"relief"} THEN "Unsupported output_style"
    ELSE "ok"

\* the dataclass-generated __init__: store the fields, then __post_init__
NewConfig(a) ==
    [kind |-> "ConversionConfig", base_thickness |-> a.base_thickness,
     max_height |-> a.max_height, model_width |-> a.model_width,
     detail_level |-> a.detail_level, smoothing |-> a.smoothing,
     invert_depth |-> a.invert_depth, output_style |-> a.output_style]

\* ConversionConfig.from_dict: data.get(key, default) for every field
FromDictArgs(keys, data) ==
    [f \in FieldNames |-> IF f \in keys THEN data[f] ELSE DefaultArgs[f]]

----------------------------------------------------------------------------
(* Arrays *)

NoGrid == [kind |-> "None"]

\* cells held for an axis of n cells: the cells themselves, or two blocks
PatDim(n) == IF n < 2 THEN n ELSE 2

Pat(g) == (1..PatDim(g.rows)) \X (1..PatDim(g.cols))

MkGrid(r, c, cs, d) ==
    [kind |-> "ndarray", ndim |-> 2, rows |-> r, cols |-> c, cells |-> cs, den |-> d]

IsArray(x) == x.kind = "ndarray"

\* ndarray.size
Size(x) == IF x.ndim = 2 THEN x.rows * x.cols ELSE x.size

CellSet(g) == {g.cells[p] : p \in Pat(g)}

\* ndarray.min(), ndarray.max() (numerators over g.den)
GridMin(g) == CHOOSE v \in CellSet(g) : \A w \in CellSet(g) : v <= w
GridMax(g) == CHOOSE v \in CellSet(g) : \A w \in CellSet(g) : v >= w

----------------------------------------------------------------------------
(* DepthAnalyzer (pipeline/depth_analyzer.py) *)

\* _validate_depth_map without the size check
ValidateNoEmptyCheck(d) ==
    IF ~IsArray(d) THEN "depth_map must be a numpy array"
    ELSE IF d.ndim # 2 THEN "depth_map must be 2D"
    ELSE "ok"

\* _validate_depth_map: the message of the ValueError raised, or "ok"
ValidateDepthMap(d) ==
    IF ~IsArray(d) THEN "depth_map must be a numpy array"
    ELSE IF d.ndim # 2 THEN "depth_map must be 2D"
    ELSE IF Size(d) = 0 THEN "depth_map is empty"
    ELSE "ok"

\* depth_map.astype(np.float32).copy(): a new array with the same values
AsFloatCopy(d) == MkGrid(d.rows, d.cols, [p \in Pat(d) |-> d.cells[p]], d.den)

\* the clamp as min(32, max(2048, n))
ClampLimitsSwapped(n) ==
    LET hi == IF MaxDim > n THEN MaxDim ELSE n
    IN  IF MinDim < hi THEN MinDim ELSE hi

\* the clamp with the upper limit alone
ClampUpperOnly(n) == IF MaxDim < n THEN MaxDim ELSE n

Clamp(n) ==
    LET lo == IF MaxDim < n THEN MaxDim ELSE n
    IN  IF MinDim > lo THEN MinDim ELSE lo

\* the target size with the scale divided instead of multiplied
TargetDimDivided(n, detail) == Clamp((n * DetailOne) \div detail)

\* int(n * detail_level), clamped
TargetDim(n, detail) == Clamp((n * detail) \div DetailOne)

\* cv2.resize(heights, (new_cols, new_rows), INTER_CUBIC): an array of the
\* target shape that interpolates the source.  The interpolation weights sum
\* to one, so the interior of a region of equal values keeps its value; the
\* cells in the transition between two regions are not held.
SrcIdx(i, p) == IF p = 1 THEN 1 ELSE i

Resize(h, new_rows, new_cols) ==
    LET pr == PatDim(h.rows)
        pcl == PatDim(h.cols)
    IN  MkGrid(new_rows, new_cols,
               [q \in (1..PatDim(new_rows)) \X (1..PatDim(new_cols)) |->
                    h.cells[<<SrcIdx(q[1], pr), SrcIdx(q[2], pcl)>>]],
               h.den)

\* _apply_detail_level without the early return for detail_level == 1.0
ApplyDetailAlwaysClamps(h, detail) ==
    LET new_rows == TargetDim(h.rows, detail)
        new_cols == TargetDim(h.cols, detail)
    IN  IF <<new_rows, new_cols>> = <<h.rows, h.cols>> THEN h
        ELSE Resize(h, new_rows, new_cols)

\* _apply_detail_level
ApplyDetailLevel(h, detail) ==
    IF detail = DetailOne THEN h
    ELSE LET new_rows == TargetDim(h.rows, detail)
             new_cols == TargetDim(h.cols, detail)
         IN  IF <<new_rows, new_cols>> = <<h.rows, h.cols>> THEN h
             ELSE Resize(h, new_rows, new_cols)

\* _invert as heights.max() - heights
InvertNoMin(h) ==
    MkGrid(h.rows, h.cols, [p \in Pat(h) |-> GridMax(h) - h.cells[p]], h.den)

\* _invert: heights.max() - heights + heights.min()
Invert(h) ==
    MkGrid(h.rows, h.cols,
           [p \in Pat(h) |-> GridMax(h) - h.cells[p] + GridMin(h)], h.den)

\* cv2.GaussianBlur(heights, (5, 5), 0): for a 5-tap kernel and sigma 0 the
\* library's fixed kernel (1, 4, 6, 4, 1) / 16 on each axis, with the default
\* border BORDER_REFLECT_101.
GaussianKernel == <<1, 4, 6, 4, 1>>

KernelSum ==
    GaussianKernel[1] + GaussianKernel[2] + GaussianKernel[3]
        + GaussianKernel[4] + GaussianKernel[5]

\* kernel_size if kernel_size % 2 == 1 else kernel_size + 1
OddKernel(k) == IF k % 2 = 1 THEN k ELSE k + 1

\* the library's borderInterpolate for BORDER_REFLECT_101, positions from 0
RECURSIVE BorderInterpolate(_, _)
BorderInterpolate(p, len) ==
    IF len = 1 THEN 0
    ELSE IF 0 <= p /\ p < len THEN p
    ELSE IF p < 0 THEN BorderInterpolate(-p, len)
    ELSE BorderInterpolate(2 * len - 2 - p, len)

\* the cell that tap k of the kernel reads for cell i of an axis of n cells:
\* a cell-by-cell axis reads through the border rule; the interior cells of a
\* block (at least 3 wide) read their own block only.
Tap(i, k, n) ==
    IF PatDim(n) = n THEN BorderInterpolate(i - 1 + k, n) + 1 ELSE i

\* one pass of the kernel along an axis of n cells, for cell i; at[k] is the
\* value of cell k of that axis
BlurAxis(at, i, n) ==
    LET half == OddKernel(KernelSize) \div 2
    IN  GaussianKernel[1] * at[Tap(i, 0 - half, n)]
            + GaussianKernel[2] * at[Tap(i, 1 - half, n)]
            + GaussianKernel[3] * at[Tap(i, 2 - half, n)]
            + GaussianKernel[4] * at[Tap(i, 3 - half, n)]
            + GaussianKernel[5] * at[Tap(i, 4 - half, n)]

\* the separable filter: along the columns of each row, then along the rows
Smooth(h) ==
    LET alongCols ==
            [p \in Pat(h) |->
                BlurAxis([c \in 1..PatDim(h.cols) |-> h.cells[<<p[1], c>>]], p[2], h.cols)]
        alongRows ==
            [p \in Pat(h) |->
                BlurAxis([r \in 1..PatDim(h.rows) |-> alongCols[<<r, p[2]>>]], p[1], h.rows)]
    IN  MkGrid(h.rows, h.cols, alongRows, h.den * KernelSum * KernelSum)

\* _normalize_to_range dividing heights, not heights - h_min, by the span
NormalizeNoOffset(h, min_height, max_height) ==
    LET h_min == GridMin(h)
        h_max == GridMax(h)
    IN  IF h_max - h_min < FlatEps * h.den
        THEN MkGrid(h.rows, h.cols, [p \in Pat(h) |-> min_height], 1)
        ELSE MkGrid(h.rows, h.cols,
                    [p \in Pat(h) |->
                        h.cells[p] * (max_height - min_height)
                            + min_height * (h_max - h_min)],
                    h_max - h_min)

\* _normalize_to_range taking the flat branch only when h_max == h_min
NormalizeFlatOnlyIfEqual(h, min_height, max_height) ==
    LET h_min == GridMin(h)
        h_max == GridMax(h)
    IN  IF h_max = h_min
        THEN MkGrid(h.rows, h.cols, [p \in Pat(h) |-> min_height], 1)
        ELSE MkGrid(h.rows, h.cols,
                    [p \in Pat(h) |->
                        (h.cells[p] - h_min) * (max_height - min_height)
                            + min_height * (h_max - h_min)],
                    h_max - h_min)

\* _normalize_to_range scaling h_max - heights in place of heights - h_min
NormalizeDescending(h, min_height, max_height) ==
    LET h_min == GridMin(h)
        h_max == GridMax(h)
    IN  IF h_max - h_min < FlatEps * h.den
        THEN MkGrid(h.rows, h.cols, [p \in Pat(h) |-> min_height], 1)
        ELSE MkGrid(h.rows, h.cols,
                    [p \in Pat(h) |->
                        (h_max - h.cells[p]) * (max_height - min_height)
                            + min_height * (h_max - h_min)],
                    h_max - h_min)

\* _normalize_to_range(heights, min_height, max_height)
NormalizeToRange(h, min_height, max_height) ==
    LET h_min == GridMin(h)
        h_max == GridMax(h)
    IN  IF h_max - h_min < FlatEps * h.den
        THEN MkGrid(h.rows, h.cols, [p \in Pat(h) |-> min_height], 1)
        ELSE MkGrid(h.rows, h.cols,
                    [p \in Pat(h) |->
                        (h.cells[p] - h_min) * (max_height - min_height)
                            + min_height * (h_max - h_min)],
                    h_max - h_min)

\* HeightData(heights, width_mm, height_mm) with __post_init__ (config.py)
HeightData(h, width_mm, height_mm) ==
    [kind |-> "HeightData", heights |-> h, width_mm |-> width_mm,
     height_mm |-> height_mm, resolution |-> <<h.rows, h.cols>>]

\* the physical dimensions with the aspect ratio taken as cols / rows
MakeHeightDataSwapped(h, config) ==
    HeightData(h, config.model_width,
               [num |-> config.model_width * h.cols, den |-> h.rows])

\* analyze, lines 78-94: the physical dimensions and the returned object
MakeHeightData(h, config) ==
    LET rows == h.rows
        cols == h.cols
        aspect_ratio == [num |-> rows, den |-> cols]
        width_mm == config.model_width
        height_mm == [num |-> width_mm * aspect_ratio.num, den |-> aspect_ratio.den]
    IN  HeightData(h, width_mm, height_mm)

\* analyze as one function of its arguments (lines 55-94), for a valid depth_map
Analyze(d, config) ==
    LET h0 == AsFloatCopy(d)
        h1 == ApplyDetailLevel(h0, config.detail_level)
        h2 == IF config.invert_depth THEN Invert(h1) ELSE h1
        h3 == IF config.smoothing THEN Smooth(h2) ELSE h2
        h4 == NormalizeToRange(h3, config.base_thickness,
                               config.base_thickness + config.max_height)
    IN  MakeHeightData(h4, config)

\* get_statistics reporting depth_map.max() under "min" as well
GetStatisticsMaxTwice(d) ==
    [kind |-> "dict", min |-> [num |-> GridMax(d), den |-> d.den],
     max |-> [num |-> GridMax(d), den |-> d.den], shape |-> <<d.rows, d.cols>>]

\* get_statistics(depth_map) for a 2-D array that is not empty.  "mean" and
\* "std" need the width of every block of a long axis, which a grid does not
\* hold; the dictionary is modelled without them.
GetStatistics(d) ==
    [kind |-> "dict", min |-> [num |-> GridMin(d), den |-> d.den],
     max |-> [num |-> GridMax(d), den |-> d.den], shape |-> <<d.rows, d.cols>>]

----------------------------------------------------------------------------
(* Surface mesh builder (spec section 4.2; pipeline/scad_generator.py) *)

NoMesh == [kind |-> "None"]

\* index of the top-surface vertex and of the base vertex of grid cell (r, c),
\* rows and columns counted from 0, in a grid of C columns and R rows
TopV(r, c, C) == r * C + c
BaseV(r, c, R, C) == R * C + r * C + c

\* one vertex per grid cell on the surface, at (x, y, height) with x and y in
\* grid steps, and a mirrored set at z = 0
MeshVertices(f) ==
    [i \in 0..(2 * f.rows * f.cols - 1) |->
        LET k == i % (f.rows * f.cols)
            r == k \div f.cols
            c == k % f.cols
        IN  <<c, r, IF i < f.rows * f.cols THEN f.z[<<r, c>>] ELSE 0>>]

GridCells(f) == (0..(f.rows - 2)) \X (0..(f.cols - 2))

\* two triangles per grid cell, normals up
TopFaces(f) ==
    UNION {{<<TopV(q[1], q[2], f.cols), TopV(q[1], q[2] + 1, f.cols),
              TopV(q[1] + 1, q[2] + 1, f.cols)>>,
            <<TopV(q[1], q[2], f.cols), TopV(q[1] + 1, q[2] + 1, f.cols),
              TopV(q[1] + 1, q[2], f.cols)>>} : q \in GridCells(f)}

\* the base with the winding of the top surface (normals up as well)
BaseFacesNotMirrored(f) ==
    UNION {{<<BaseV(q[1], q[2], f.rows, f.cols),
              BaseV(q[1], q[2] + 1, f.rows, f.cols),
              BaseV(q[1] + 1, q[2] + 1, f.rows, f.cols)>>,
            <<BaseV(q[1], q[2], f.rows, f.cols),
              BaseV(q[1] + 1, q[2] + 1, f.rows, f.cols),
              BaseV(q[1] + 1, q[2], f.rows, f.cols)>>} : q \in GridCells(f)}

\* the flat base at z = 0: the top's triangles mirrored, normals down
BaseFaces(f) ==
    UNION {{<<BaseV(q[1], q[2], f.rows, f.cols),
              BaseV(q[1] + 1, q[2] + 1, f.rows, f.cols),
              BaseV(q[1], q[2] + 1, f.rows, f.cols)>>,
            <<BaseV(q[1], q[2], f.rows, f.cols),
              BaseV(q[1] + 1, q[2], f.rows, f.cols),
              BaseV(q[1] + 1, q[2] + 1, f.rows, f.cols)>>} : q \in GridCells(f)}

\* one quad per boundary edge, from the surface boundary down to the base
WallFaces(f) ==
    LET R == f.rows
        C == f.cols
    IN  {<<TopV(0, c + 1, C), TopV(0, c, C), BaseV(0, c, R, C),
           BaseV(0, c + 1, R, C)>> : c \in 0..(C - 2)}
        \cup
        {<<TopV(R - 1, c, C), TopV(R - 1, c + 1, C), BaseV(R - 1, c + 1, R, C),
           BaseV(R - 1, c, R, C)>> : c \in 0..(C - 2)}
        \cup
        {<<TopV(r, 0, C), TopV(r + 1, 0, C), BaseV(r + 1, 0, R, C),
           BaseV(r, 0, R, C)>> : r \in 0..(R - 2)}
        \cup
        {<<TopV(r + 1, C - 1, C), TopV(r, C - 1, C), BaseV(r, C - 1, R, C),
           BaseV(r + 1, C - 1, R, C)>> : r \in 0..(R - 2)}

\* build(heightField): GeometryError when a dimension is below 2
BuildMesh(f) ==
    IF f.rows < 2 \/ f.cols < 2
    THEN [kind |-> "raise", exc |-> "GeometryError"]
    ELSE [kind |-> "Mesh", vertices |-> MeshVertices(f),
          faces |-> TopFaces(f) \cup BaseFaces(f) \cup WallFaces(f)]

----------------------------------------------------------------------------
(* DepthEstimator (pipeline/depth_estimator.py) *)

NoEstimator == [kind |-> "None"]

\* DepthEstimator(): no model, no processor, torch not imported.  A field
\* holds TRUE when the attribute is not None.
NewEstimator ==
    [kind |-> "DepthEstimator", model |-> FALSE, processor |-> FALSE,
     torch |-> FALSE]

\* the property is_loaded
IsLoaded(e) == e.model

\* an image array of shape (h, w, c)
Raster(h, w, c) ==
    [kind |-> "ndarray", ndim |-> 3, shape |-> <<h, w, c>>, dtype |-> "uint8"]

\* _validate_image without the check of the channels
ValidateImageAnyChannels(img) ==
    IF ~IsArray(img) THEN "Image must be a numpy array"
    ELSE IF img.ndim # 3 THEN "Image must be 3D array (H, W, C)"
    ELSE "ok"

\* DepthEstimator._validate_image: the message of the ValueError raised, or "ok"
ValidateImage(img) ==
    IF ~IsArray(img) THEN "Image must be a numpy array"
    ELSE IF img.ndim # 3 THEN "Image must be 3D array (H, W, C)"
    ELSE IF img.shape[3] # 3 THEN "Image must have 3 channels (RGB)"
    ELSE "ok"

\* the attributes that lines 60-80 have assigned when loading ends with outcome o
LoadInto(e, o) ==
    [e EXCEPT !.torch = (o # "import_error"),
              !.processor = (o \notin {"import_error", "processor_error"}),
              !.model = (o \in {"to_error", "ok"})]

\* what _ensure_loaded raises when loading ends with outcome o
LoadRaises(o) ==
    IF o = "ok" THEN [kind |-> "None"]
    ELSE IF o = "import_error"
    THEN [kind |-> "raise", exc |-> "DepthEstimationError",
          msg |-> "Missing required dependency"]
    ELSE [kind |-> "raise", exc |-> "DepthEstimationError",
          msg |-> "Failed to load depth model"]

\* _ensure_loaded without the early return for a model that is loaded
EnsureLoadedAlways(e, o) ==
    [est |-> LoadInto(e, o), raised |-> LoadRaises(o),
     loaded |-> (o \in {"to_error", "ok"})]

\* _ensure_loaded with loading outcome o: the estimator afterwards, what is
\* raised, and whether from_pretrained returned a model (line 78)
EnsureLoaded(e, o) ==
    IF e.model
    THEN [est |-> e, raised |-> [kind |-> "None"], loaded |-> FALSE]
    ELSE [est |-> LoadInto(e, o), raised |-> LoadRaises(o),
          loaded |-> (o \in {"to_error", "ok"})]

\* prediction.squeeze().cpu().numpy() for an image of h x w pixels with the
\* predicted values cs: squeeze drops every axis of length 1
PredictedDepth(img, cs) ==
    LET h == img.shape[1]
        w == img.shape[2]
    IN  IF h > 1 /\ w > 1 THEN MkGrid(h, w, cs, 1)
        ELSE [kind |-> "ndarray", ndim |-> (IF h = 1 /\ w = 1 THEN 0 ELSE 1),
              size |-> h * w]

\* release() that clears the processor and leaves the model
ReleaseKeepsModel(e) == [e EXCEPT !.processor = FALSE]

\* release(): the model and the processor are dropped, torch stays imported
Release(e) == [e EXCEPT !.model = FALSE, !.processor = FALSE]

----------------------------------------------------------------------------
(* ImageLoader (pipeline/image_loader.py) *)

\* a file is [exists, is_file, suffix, opens, size, mode]: whether the path
\* exists and is a regular file, its suffix, whether PIL can open it, and the
\* size (width, height) and mode of the picture in it

SupportedFormats == {".jpg", ".jpeg", ".png", ".webp", ".bmp", ".tiff", ".tif"}

\* str.lower() on the suffixes the model uses
Lower(sfx) ==
    CASE sfx = ".PNG" -> ".png"
      [] sfx = ".SCAD" -> ".scad"
      [] OTHER -> sfx

\* _validate_path: what it raises, or nothing
ValidatePath(f) ==
    IF ~f.exists
    THEN [kind |-> "raise", exc |-> "FileNotFoundError", msg |-> "Image file not found"]
    ELSE IF ~f.is_file
    THEN [kind |-> "raise", exc |-> "ImageLoadError", msg |-> "Path is not a file"]
    ELSE IF Lower(f.suffix) \notin SupportedFormats
    THEN [kind |-> "raise", exc |-> "ImageLoadError", msg |-> "Unsupported image format"]
    ELSE [kind |-> "None"]

\* Image.open(path), wrapped in ImageLoadError when it raises
OpenImage(f) ==
    IF f.opens
    THEN [kind |-> "Image", size |-> f.size, mode |-> f.mode]
    ELSE [kind |-> "raise", exc |-> "ImageLoadError", msg |-> "Failed to open image"]

\* ImageLoader._validate_image: what it raises, or nothing (a large image is
\* only logged)
ValidatePicture(img) ==
    IF img.size[1] < MinDimension \/ img.size[2] < MinDimension
    THEN [kind |-> "raise", exc |-> "ImageLoadError", msg |-> "Image too small"]
    ELSE [kind |-> "None"]

\* _convert_to_rgb: the same size, mode RGB
ConvertToRgb(img) == [img EXCEPT !.mode = "RGB"]

\* _resize_if_needed: int(height * (max_dimension / width)) is taken as the
\* floor of the exact quotient; Image.resize refuses a size of zero
ResizeIfNeeded(img, max_dimension) ==
    LET width == img.size[1]
        height == img.size[2]
        new_size ==
            IF width > height
            THEN <<max_dimension, (height * max_dimension) \div width>>
            ELSE <<(width * max_dimension) \div height, max_dimension>>
    IN  IF width <= max_dimension /\ height <= max_dimension THEN img
        ELSE IF new_size[1] = 0 \/ new_size[2] = 0
        THEN [kind |-> "raise", exc |-> "ValueError",
              msg |-> "height and width must be > 0"]
        ELSE [img EXCEPT !.size = new_size]

\* np.array(image, dtype=np.uint8): shape (height, width, 3) for an RGB image
ToArray(img) == Raster(img.size[2], img.size[1], 3)

\* load(path) as one function of the file
Load(f, max_dimension) ==
    IF ValidatePath(f).kind = "raise" THEN ValidatePath(f)
    ELSE IF OpenImage(f).kind = "raise" THEN OpenImage(f)
    ELSE IF ValidatePicture(OpenImage(f)).kind = "raise"
    THEN ValidatePicture(OpenImage(f))
    ELSE LET resized == ResizeIfNeeded(ConvertToRgb(OpenImage(f)), max_dimension)
         IN  IF resized.kind = "raise" THEN resized ELSE ToArray(resized)

----------------------------------------------------------------------------
(* STLExporter (exporters/stl_exporter.py) *)

\* a path is [stem, suffix]; Path.with_suffix
WithSuffix(path, sfx) == [path EXCEPT !.suffix = sfx]

\* the exporter x is [openscad_path, timeout] with the system it runs on:
\* path_exists (the configured path exists), on_path (the names shutil.which
\* finds), installed (the common locations that exist)

\* the first element of the sequence names that is in the set found
FirstOf(names, found) ==
    names[CHOOSE i \in 1..Len(names) :
              /\ names[i] \in found
              /\ \A j \in 1..(i - 1) : names[j] \notin found]

\* _find_openscad: the command, or the STLExportError raised
FindOpenscad(x) ==
    LET common_names == <<"openscad", "OpenSCAD">>
        common_paths ==
            <<"/Applications/OpenSCAD.app/Contents/MacOS/OpenSCAD",
              "/usr/bin/openscad", "/usr/local/bin/openscad",
              "C:/Program Files/OpenSCAD/openscad.exe">>
    IN  IF x.openscad_path # ""
        THEN IF x.path_exists
             THEN [kind |-> "cmd", via |-> "configured", name |-> x.openscad_path]
             ELSE [kind |-> "raise", exc |-> "STLExportError",
                   msg |-> "OpenSCAD not found at"]
        ELSE IF \E i \in 1..Len(common_names) : common_names[i] \in x.on_path
        THEN [kind |-> "cmd", via |-> "which",
              name |-> FirstOf(common_names, x.on_path)]
        ELSE IF \E i \in 1..Len(common_paths) : common_paths[i] \in x.installed
        THEN [kind |-> "cmd", via |-> "common",
              name |-> FirstOf(common_paths, x.installed)]
        ELSE [kind |-> "raise", exc |-> "STLExportError",
              msg |-> "OpenSCAD not found"]

\* a run of the command is [starts, seconds, returncode, creates]: whether the
\* executable can be started, how long it renders, its return code and
\* whether it writes the STL file

\* lines 93-119 with one handler for TimeoutExpired and FileNotFoundError
RunOpenscadOneHandler(x, run, stl_path) ==
    IF ~run.starts \/ run.seconds > x.timeout
    THEN [kind |-> "raise", exc |-> "STLExportError",
          msg |-> "OpenSCAD executable not found"]
    ELSE IF run.returncode # 0
    THEN [kind |-> "raise", exc |-> "STLExportError", msg |-> "OpenSCAD rendering failed"]
    ELSE IF ~run.creates
    THEN [kind |-> "raise", exc |-> "STLExportError",
          msg |-> "OpenSCAD completed but STL file was not created"]
    ELSE [kind |-> "path", path |-> stl_path]

\* lines 93-119: subprocess.run raises FileNotFoundError when the executable
\* cannot be started and TimeoutExpired when it runs longer than the timeout
RunOpenscad(x, run, stl_path) ==
    IF ~run.starts
    THEN [kind |-> "raise", exc |-> "STLExportError",
          msg |-> "OpenSCAD executable not found"]
    ELSE IF run.seconds > x.timeout
    THEN [kind |-> "raise", exc |-> "STLExportError",
          msg |-> "OpenSCAD rendering timed out"]
    ELSE IF run.returncode # 0
    THEN [kind |-> "raise", exc |-> "STLExportError", msg |-> "OpenSCAD rendering failed"]
    ELSE IF ~run.creates
    THEN [kind |-> "raise", exc |-> "STLExportError",
          msg |-> "OpenSCAD completed but STL file was not created"]
    ELSE [kind |-> "path", path |-> stl_path]

\* export(scad_path, stl_path) as one function: scad_exists says whether the
\* input file exists, stl_arg is the stl_path argument or NoCall for None
Export(x, scad_path, scad_exists, stl_arg, run) ==
    IF ~scad_exists
    THEN [kind |-> "raise", exc |-> "FileNotFoundError",
          msg |-> "OpenSCAD file not found"]
    ELSE IF FindOpenscad(x).kind = "raise" THEN FindOpenscad(x)
    ELSE RunOpenscad(x, run,
                     IF stl_arg = [kind |-> "None"]
                     THEN WithSuffix(scad_path, ".stl") ELSE stl_arg)

----------------------------------------------------------------------------
(* Converter (converter.py) and save_scad (utils/file_utils.py) *)

\* None
None == [kind |-> "None"]

\* convert's locals after config = config or ConversionConfig() (line 94);
\* progress_callback is None, and progress holds the calls it received
NewLocals(config) ==
    [config |-> IF config = None THEN NewConfig(DefaultArgs) ELSE config,
     progress_callback |-> None, progress |-> <<>>, image |-> None,
     depth_map |-> None, height_data |-> None, scad_code |-> None,
     scad_path |-> None, stl_path |-> None]

\* report_progress that passes on the start of a stage alone
ReportProgressStartsOnly(l, stage, progress) ==
    IF l.progress_callback # None /\ progress = 0
    THEN [l EXCEPT !.progress = Append(@, <<stage, progress>>)]
    ELSE l

\* report_progress(stage, progress), progress being 0 for 0.0 and 1 for 1.0:
\* the callback, when there is one, is called with the pair
ReportProgress(l, stage, progress) ==
    IF l.progress_callback # None
    THEN [l EXCEPT !.progress = Append(@, <<stage, progress>>)]
    ELSE l

\* OpenSCADGenerator.generate(height_data, config): the program text of the
\* relief of the height grid, held as the grid it was generated from
GenerateScad(height_data) ==
    IF height_data.heights.rows < 2 \/ height_data.heights.cols < 2
    THEN [kind |-> "raise", exc |-> "GeometryError", msg |-> "grid too small"]
    ELSE [kind |-> "scad", resolution |-> height_data.resolution]

\* save_scad(code, path): the suffix is made .scad and the text is written;
\* writable says whether write_text succeeds
SaveScad(path, writable) ==
    IF ~writable
    THEN [kind |-> "raise", exc |-> "OSError", msg |-> "cannot write"]
    ELSE IF Lower(path.suffix) # ".scad" THEN WithSuffix(path, ".scad") ELSE path

\* ConversionResult(scad_code, scad_path, stl_path, depth_map, processing_time)
ConversionResult(l) ==
    [kind |-> "ConversionResult", scad_code |-> l.scad_code,
     scad_path |-> l.scad_path, stl_path |-> l.stl_path, depth_map |-> l.depth_map]

----------------------------------------------------------------------------
(* The command line (cli.py, __main__.py) *)

\* parse_args(args): the Namespace, or the SystemExit argparse raises after
\* printing the usage error (code 2) or the help or version text (code 0)
ParseArgs(argv) ==
    CASE argv.parse = "usage" ->
             [kind |-> "raise", exc |-> "SystemExit", msg |-> "usage", code |-> 2]
      [] argv.parse = "help" ->
             [kind |-> "raise", exc |-> "SystemExit", msg |-> "help", code |-> 0]
      [] OTHER -> [argv EXCEPT !.kind = "Namespace"]

\* validate_args(args): the exception raised, or None
ValidateArgs(a) ==
    IF ~a.input.exists THEN Raised("FileNotFoundError", "Input file not found")
    ELSE IF ~a.input.is_file THEN Raised("ValueError", "Input path is not a file")
    ELSE IF ~(MinDetail <= a.detail /\ a.detail <= MaxDetail)
         THEN Raised("ValueError", "Detail level must be between 0.5 and 2.0")
    ELSE IF a.base_thickness <= 0
         THEN Raised("ValueError", "Base thickness must be positive")
    ELSE IF a.max_height <= 0 THEN Raised("ValueError", "Max height must be positive")
    ELSE IF a.width <= 0 THEN Raised("ValueError", "Width must be positive")
    ELSE None

\* build_config(args)
BuildConfig(a) ==
    LET kw == [base_thickness |-> a.base_thickness, max_height |-> a.max_height,
               model_width |-> a.width, detail_level |-> a.detail,
               smoothing |-> ~a.no_smoothing, invert_depth |-> a.invert,
               output_style |-> DefaultArgs.output_style]
    IN  IF PostInit(kw) # "ok" THEN Raised("ValueError", PostInit(kw))
        ELSE NewConfig(kw)

\* main's except clauses without the last one, except Exception
MainHandlerNoCatchAll(x) ==
    IF IsSubclass(x.exc, "FileNotFoundError")
    THEN [kind |-> "handled", printed |-> <<"Error: ", x.msg>>, code |-> 1]
    ELSE IF IsSubclass(x.exc, "ValueError")
    THEN [kind |-> "handled", printed |-> <<"Error: ", x.msg>>, code |-> 1]
    ELSE IF IsSubclass(x.exc, "KeyboardInterrupt")
    THEN [kind |-> "handled", printed |-> <<"Operation cancelled.", "">>,
          code |-> 130]
    ELSE [kind |-> "propagates"]

\* main's except clauses, in their order: what is printed on stderr and the
\* value returned, or the exception propagates
MainHandler(x) ==
    IF IsSubclass(x.exc, "FileNotFoundError")
    THEN [kind |-> "handled", printed |-> <<"Error: ", x.msg>>, code |-> 1]
    ELSE IF IsSubclass(x.exc, "ValueError")
    THEN [kind |-> "handled", printed |-> <<"Error: ", x.msg>>, code |-> 1]
    ELSE IF IsSubclass(x.exc, "KeyboardInterrupt")
    THEN [kind |-> "handled", printed |-> <<"Operation cancelled.", "">>,
          code |-> 130]
    ELSE IF IsSubclass(x.exc, "Exception")
    THEN [kind |-> "handled", printed |-> <<"Unexpected error: ", x.msg>>,
          code |-> 1]
    ELSE [kind |-> "propagates"]

\* the exit status of the process: cli.py run as a script ends with
\* sys.exit(main()), __main__.py with main(); an escaping SystemExit ends the
\* process with its code, another escaping exception with status 1
ExitStatus(entry, how, value) ==
    IF how = "escaped" THEN (IF value.exc = "SystemExit" THEN value.code ELSE 1)
    ELSE IF entry = "script" THEN value
    ELSE 0

----------------------------------------------------------------------------
(* Inputs *)

\* depth values, in units of 1e-7: 0 and 4 differ by less than 1e-6
DepthValues == {0, 4, 30}

\* shapes held cell by cell, and shapes of two blocks per long axis
SmallShapes == {<<1, 1>>, <<1, 2>>}

LargeShapes ==
    {<<1, 64>>, <<48, 64>>, <<65, 100>>, <<1024, 1024>>, <<4096, 64>>}

GridsOf(shapes, values) ==
    UNION {{MkGrid(s[1], s[2], cs, 1) :
                cs \in [(1..PatDim(s[1])) \X (1..PatDim(s[2])) -> values]} :
           s \in shapes}

\* what a caller may pass as depth_map: a list, arrays that are not 2-D,
\* empty 2-D arrays, and 2-D arrays
BadDepthMaps ==
    {[kind |-> "list"],
     [kind |-> "ndarray", ndim |-> 1, size |-> 3],
     [kind |-> "ndarray", ndim |-> 3, size |-> 300],
     [kind |-> "ndarray", ndim |-> 1, size |-> 0]}
    \cup GridsOf({<<0, 0>>, <<0, 2>>}, DepthValues)

\* normalized height grids of R x C cells held cell by cell: the cells of the
\* first i rows and j columns at one end of the height range, the others at
\* the other end
HeightFields ==
    UNION {{[rows |-> R, cols |-> C,
             z |-> [q \in (0..(R - 1)) \X (0..(C - 1)) |->
                       IF (q[1] < i /\ q[2] < j) = up
                       THEN DefaultArgs.base_thickness + DefaultArgs.max_height
                       ELSE DefaultArgs.base_thickness]] :
                i \in 0..R, j \in 0..C, up \in BOOLEAN} :
           R \in 1..MaxMeshDim, C \in 1..MaxMeshDim}

DepthMaps ==
    BadDepthMaps \cup GridsOf(SmallShapes, DepthValues)
                 \cup GridsOf({<<2, 1>>, <<2, 2>>}, {4, 30})
                 \cup GridsOf(LargeShapes, {0, 30})
                 \cup {MkGrid(2, 2, [q \in (1..2) \X (1..2) |->
                                       IF q[1] = 2 THEN 30
                                       ELSE IF q[2] = 2 THEN 4 ELSE 0], 1)}

PictureFile(sfx, size, mode) ==
    [exists |-> TRUE, is_file |-> TRUE, suffix |-> sfx, opens |-> TRUE,
     size |-> size, mode |-> mode]

\* exporters and the systems they run on
Exporters ==
    {[openscad_path |-> op, timeout |-> DefaultRenderTimeout, path_exists |-> pe,
      on_path |-> w, installed |-> ins] :
        op \in {"", "/opt/openscad"}, pe \in BOOLEAN,
        w \in {{}, {"OpenSCAD"}, {"openscad", "OpenSCAD"}},
        ins \in {{}, {"/usr/bin/openscad", "/usr/local/bin/openscad"}}}

\* how a run of the command can go
Runs ==
    [starts : BOOLEAN, seconds : {10, DefaultRenderTimeout, DefaultRenderTimeout + 1},
     returncode : {0, 1}, creates : BOOLEAN]

\* the files convert is called on
ConvertFiles ==
    {[PictureFile(".jpg", <<64, 64>>, "RGB") EXCEPT !.exists = FALSE, !.is_file = FALSE],
     PictureFile(".jpg", <<63, 64>>, "RGB"),
     PictureFile(".PNG", <<100, 80>>, "RGBA"),
     PictureFile(".jpg", <<1025, 64>>, "RGB"),
     PictureFile(".jpg", <<65536, 64>>, "L")}

\* the command lines: those argparse accepts, one it rejects and --help, on
\* a missing file, a directory, a picture that is too small and a good one
CommandLines ==
    LET files ==
            {[PictureFile(".jpg", <<64, 64>>, "RGB")
                 EXCEPT !.exists = FALSE, !.is_file = FALSE],
             [PictureFile(".jpg", <<64, 64>>, "RGB") EXCEPT !.is_file = FALSE],
             PictureFile(".jpg", <<63, 64>>, "RGB"),
             PictureFile(".jpg", <<64, 64>>, "RGB")}
        line(f, o, stl, detail, dims, flags) ==
            [kind |-> "argv", parse |-> "ok", input |-> f, output |-> o,
             stl |-> stl, base_thickness |-> dims[1], max_height |-> dims[2],
             width |-> dims[3], detail |-> detail, no_smoothing |-> flags[1],
             invert |-> flags[2], verbose |-> flags[3], quiet |-> flags[4]]
    IN  {line(f, o, stl, detail, dims, flags) :
             f \in files, o \in {None, [stem |-> "out", suffix |-> ".txt"]},
             stl \in BOOLEAN, detail \in {1, DetailOne, 9},
             dims \in {<<2, 15, 100>>, <<0, 15, 100>>, <<2, 0, 100>>,
                       <<2, 15, -50>>},
             flags \in {<<FALSE, FALSE, FALSE, FALSE>>, <<TRUE, TRUE, TRUE, TRUE>>,
                        <<FALSE, FALSE, TRUE, FALSE>>}}
        \cup {[line(f, None, FALSE, DetailOne, <<2, 15, 100>>,
                    <<FALSE, FALSE, FALSE, FALSE>>) EXCEPT !.parse = p] :
                  f \in files, p \in {"usage", "help"}}

\* the requests that run concurrently
Requests == {1, 2}

\* a request that has not called analyze
IdleRequest ==
    [pc |-> "idle", analyzer |-> 0, depth_map |-> NoGrid, config |-> NoConfig,
     heights |-> NoGrid, result |-> [kind |-> "None"]]

\* Converter() shared by the calls of Requests: _depth_estimator is None (0,
\* later the number of the DepthEstimator it holds), no DepthEstimator has
\* been made, none holds a model, and no call is running
NewConverter ==
    [depth_estimator |-> 0, made |-> 0,
     model |-> [e \in Requests |-> FALSE], loads |-> [e \in Requests |-> 0],
     calls |-> [i \in Requests |->
                   [pc |-> "idle", method |-> "none", depth_estimator |-> 0]]]

----------------------------------------------------------------------------
(* The state machine *)

NoResult == [kind |-> "None"]

NoCall == [kind |-> "None"]


EstimatorVars == <<est, loads, last, epc, image, eres>>

ConvertVars == <<cpc, cargs, clocals, cres>>

\* the objects outside the configuration, the analyzer and the mesh builder
ExportVars == <<xpc, xself, xres>>

CliVars == <<mpc, margs, mres, stderr, status>>

PipelineVars ==
    <<EstimatorVars, ConvertVars, ExportVars, CliVars, reqs, shared>>

Init ==
    /\ cfg = NoConfig
    /\ built = NoCall
    /\ pc = "idle"
    /\ depth_map = NoGrid
    /\ heights = NoGrid
    /\ stepIn = NoGrid
    /\ ran = <<>>
    /\ result = NoResult
    /\ gpc = "idle"
    /\ field = NoGrid
    /\ mesh = NoMesh
    /\ est = NoEstimator
    /\ loads = 0
    /\ last = <<>>
    /\ epc = "idle"
    /\ image = NoGrid
    /\ eres = NoResult
    /\ cpc = "idle"
    /\ cargs = NoCall
    /\ clocals = NoCall
    /\ cres = NoResult
    /\ xpc = "idle"
    /\ xself = NoCall
    /\ xres = NoResult
    /\ mpc = "idle"
    /\ margs = NoCall
    /\ mres = NoResult
    /\ stderr = <<>>
    /\ status = NoResult
    /\ reqs = [i \in Requests |-> IdleRequest]
    /\ shared = NewConverter

MeshVars == <<gpc, field, mesh>>

AnalyzeVars ==
    <<pc, depth_map, heights, stepIn, ran, result, gpc, field, mesh,
      PipelineVars>>

\* the constructor call with arguments a: __init__ stores them, __post_init__
\* validates; the caller gets the object only when nothing was raised
Build(a, how) ==
    /\ pc = "idle"
    /\ cfg = NoConfig
    /\ LET out == PostInit(a)
       IN  /\ built' = [kind |-> how, args |-> a,
                        raised |-> IF out = "ok" THEN NoResult
                                   ELSE Raised("ValueError", out)]
           /\ cfg' = IF out = "ok" THEN NewConfig(a) ELSE NoConfig
    /\ UNCHANGED AnalyzeVars

\* ConversionConfig(base_thickness=..., ...)
Construct ==
    \E bt \in FieldValues("base_thickness"), mh \in FieldValues("max_height"),
       mw \in FieldValues("model_width"), dl \in FieldValues("detail_level"),
       sm \in FieldValues("smoothing"), iv \in FieldValues("invert_depth"),
       os \in FieldValues("output_style") :
        Build([base_thickness |-> bt, max_height |-> mh, model_width |-> mw,
               detail_level |-> dl, smoothing |-> sm, invert_depth |-> iv,
               output_style |-> os], "init")

\* ConversionConfig.from_dict(data), data holding one key (the rest default)
FromDict ==
    \E f \in FieldNames : \E v \in FieldValues(f) :
        Build(FromDictArgs({f}, [g \in {f} |-> v]), "from_dict")

\* config.<f> = v: the dataclass is not frozen and the assignment runs no check
SetField ==
    /\ pc = "idle"
    /\ cfg # NoConfig
    /\ \E f \in FieldNames : \E v \in FieldValues(f) :
           cfg' = [cfg EXCEPT ![f] = v]
    /\ built' = NoCall
    /\ UNCHANGED AnalyzeVars

\* the caller drops the object
Discard ==
    /\ pc = "idle"
    /\ cfg # NoConfig
    /\ cfg' = NoConfig
    /\ built' = NoCall
    /\ UNCHANGED AnalyzeVars

ConfigVars == <<cfg, gpc, field, mesh, PipelineVars>>

\* analyzer.analyze(depth_map, config) is called
AnalyzeCall ==
    /\ pc = "idle"
    /\ cfg # NoConfig
    /\ \E d \in DepthMaps : depth_map' = d
    /\ pc' = "validate"
    /\ heights' = NoGrid
    /\ stepIn' = NoGrid
    /\ ran' = <<>>
    /\ result' = NoResult
    /\ built' = NoCall
    /\ UNCHANGED ConfigVars

\* line 55, and line 58 when nothing was raised
Validate ==
    /\ pc = "validate"
    /\ ran' = Append(ran, "validate")
    /\ LET out == ValidateDepthMap(depth_map)
       IN  IF out = "ok"
           THEN /\ heights' = AsFloatCopy(depth_map)
                /\ pc' = "detail"
                /\ result' = result
           ELSE /\ heights' = heights
                /\ pc' = "raised"
                /\ result' = Raised("ValueError", out)
    /\ UNCHANGED <<cfg, built, depth_map, stepIn, MeshVars, PipelineVars>>

\* line 61
DetailStep ==
    /\ pc = "detail"
    /\ stepIn' = heights
    /\ heights' = ApplyDetailLevel(heights, cfg.detail_level)
    /\ ran' = Append(ran, "detail")
    /\ pc' = "invert"
    /\ UNCHANGED <<cfg, built, depth_map, result, MeshVars, PipelineVars>>

\* lines 64-65
InvertStep ==
    /\ pc = "invert"
    /\ IF cfg.invert_depth
       THEN /\ stepIn' = heights
            /\ heights' = Invert(heights)
            /\ ran' = Append(ran, "invert")
       ELSE UNCHANGED <<stepIn, heights, ran>>
    /\ pc' = "smooth"
    /\ UNCHANGED <<cfg, built, depth_map, result, MeshVars, PipelineVars>>

\* lines 68-69 with _smooth applied to the copy of depth_map in place of heights
SmoothStepOnInput ==
    /\ pc = "smooth"
    /\ IF cfg.smoothing
       THEN /\ stepIn' = AsFloatCopy(depth_map)
            /\ heights' = Smooth(AsFloatCopy(depth_map))
            /\ ran' = Append(ran, "smooth")
       ELSE UNCHANGED <<stepIn, heights, ran>>
    /\ pc' = "normalize"
    /\ UNCHANGED <<cfg, built, depth_map, result, MeshVars, PipelineVars>>

\* lines 68-69
SmoothStep ==
    /\ pc = "smooth"
    /\ IF cfg.smoothing
       THEN /\ stepIn' = heights
            /\ heights' = Smooth(heights)
            /\ ran' = Append(ran, "smooth")
       ELSE UNCHANGED <<stepIn, heights, ran>>
    /\ pc' = "normalize"
    /\ UNCHANGED <<cfg, built, depth_map, result, MeshVars, PipelineVars>>

\* lines 72-76
NormalizeStep ==
    /\ pc = "normalize"
    /\ stepIn' = heights
    /\ heights' = NormalizeToRange(heights, cfg.base_thickness,
                                   cfg.base_thickness + cfg.max_height)
    /\ ran' = Append(ran, "normalize")
    /\ pc' = "size"
    /\ UNCHANGED <<cfg, built, depth_map, result, MeshVars, PipelineVars>>

\* lines 78-94
ReturnStep ==
    /\ pc = "size"
    /\ result' = MakeHeightData(heights, cfg)
    /\ pc' = "returned"
    /\ UNCHANGED <<cfg, built, depth_map, heights, stepIn, ran, MeshVars, PipelineVars>>

\* the caller takes the result (or the exception) and goes on
AnalyzeDone ==
    /\ pc \in {"returned", "raised"}
    /\ pc' = "idle"
    /\ depth_map' = NoGrid
    /\ heights' = NoGrid
    /\ stepIn' = NoGrid
    /\ ran' = <<>>
    /\ result' = NoResult
    /\ UNCHANGED <<cfg, built, MeshVars, PipelineVars>>

\* analyzer.get_statistics(depth_map) is called on a 2-D array that is not
\* empty and returns (lines 230-236)
GetStatisticsCall ==
    /\ pc = "idle"
    /\ \E d \in {g \in DepthMaps : IsArray(g) /\ g.ndim = 2 /\ Size(g) > 0} :
           depth_map' = d
    /\ result' = GetStatistics(depth_map')
    /\ pc' = "stats"
    /\ built' = NoCall
    /\ UNCHANGED <<heights, stepIn, ran>>
    /\ UNCHANGED ConfigVars

\* the caller takes the dictionary and goes on
GetStatisticsDone ==
    /\ pc = "stats"
    /\ pc' = "idle"
    /\ depth_map' = NoGrid
    /\ result' = NoResult
    /\ UNCHANGED <<cfg, built, heights, stepIn, ran, MeshVars, PipelineVars>>

Next ==
    \/ Construct
    \/ FromDict
    \/ SetField
    \/ Discard
    \/ AnalyzeCall
    \/ Validate
    \/ DetailStep
    \/ InvertStep
    \/ SmoothStep
    \/ NormalizeStep
    \/ ReturnStep
    \/ AnalyzeDone
    \/ GetStatisticsCall
    \/ GetStatisticsDone

Spec == Init /\ [][Next]_vars

\* the mesh builder is handed a height grid
BuildCall ==
    /\ gpc = "idle"
    /\ \E f \in HeightFields : field' = f
    /\ gpc' = "build"
    /\ mesh' = NoMesh
    /\ UNCHANGED <<cfg, built, pc, depth_map, heights, stepIn, ran, result,
                   PipelineVars>>

\* it builds the mesh, or raises
BuildStep ==
    /\ gpc = "build"
    /\ mesh' = BuildMesh(field)
    /\ gpc' = IF BuildMesh(field).kind = "Mesh" THEN "built" ELSE "raised"
    /\ UNCHANGED <<cfg, built, pc, depth_map, heights, stepIn, ran,
                   result, field, PipelineVars>>

\* the caller takes the mesh (or the error)
BuildDone ==
    /\ gpc \in {"built", "raised"}
    /\ gpc' = "idle"
    /\ field' = NoGrid
    /\ mesh' = NoMesh
    /\ UNCHANGED <<cfg, built, pc, depth_map, heights, stepIn, ran, result,
                   PipelineVars>>

NextMesh ==
    \/ BuildCall
    \/ BuildStep
    \/ BuildDone

SpecMesh == Init /\ [][NextMesh]_vars

----------------------------------------------------------------------------
(* The estimator and the converter *)

CoreVars ==
    <<cfg, built, pc, depth_map, heights, stepIn, ran, result, MeshVars>>

\* everything outside the estimator and the converter
OutsideConvert == <<CoreVars, ExportVars, CliVars, reqs, shared>>

\* the history of estimator operations, the last two kept
Push(h, op) == IF Len(h) < 2 THEN Append(h, op) ELSE <<h[2], op>>

\* DepthEstimator() (depth_estimator.py lines 35-47)
ConstructEstimator ==
    /\ cpc = "idle" /\ epc = "idle"
    /\ est = NoEstimator
    /\ est' = NewEstimator
    /\ loads' = 0
    /\ last' = Push(last, "construct")
    /\ UNCHANGED <<epc, image, eres, ConvertVars, OutsideConvert>>

\* estimator.estimate(image) is called
EstimateCall ==
    /\ cpc = "idle" /\ epc = "idle"
    /\ est # NoEstimator
    /\ \E img \in {[kind |-> "list"],
                  [kind |-> "ndarray", ndim |-> 2, shape |-> <<64, 64>>,
                   dtype |-> "uint8"],
                  Raster(64, 64, 4), Raster(64, 64, 3), Raster(1, 64, 3)} :
           image' = img
    /\ epc' = "validate"
    /\ eres' = NoResult
    /\ UNCHANGED <<est, loads, last, ConvertVars, OutsideConvert>>

\* line 107
EstValidate ==
    /\ epc = "validate"
    /\ LET out == ValidateImage(image)
       IN  IF out = "ok"
           THEN epc' = "load" /\ eres' = eres
           ELSE epc' = "raised" /\ eres' = Raised("ValueError", out)
    /\ UNCHANGED <<est, loads, last, image, ConvertVars, OutsideConvert>>

\* line 108: every import and call of _ensure_loaded succeeds, or the import
\* (60-61), the processor (77), the model (78) or model.to / model.eval
\* (79-80) raises
EstEnsureLoaded ==
    /\ epc = "load"
    /\ \E o \in {"ok", "import_error", "processor_error", "model_error",
                "to_error"} :
           LET r == EnsureLoaded(est, o)
           IN  /\ est' = r.est
               /\ loads' = IF r.loaded THEN loads + 1 ELSE loads
               /\ IF r.raised.kind = "None"
                  THEN epc' = "infer" /\ eres' = eres
                  ELSE epc' = "raised" /\ eres' = r.raised
    /\ UNCHANGED <<last, image, ConvertVars, OutsideConvert>>

\* lines 110-140: inference returns the depth map (values in units of 1e-7), or anything it raises is
\* wrapped in DepthEstimationError
EstInfer ==
    /\ epc = "infer"
    /\ \/ /\ \E cs \in [(1..2) \X (1..2) -> {0, 30}] :
                  eres' = PredictedDepth(image, cs)
          /\ epc' = "returned"
       \/ /\ eres' = Raised("DepthEstimationError", "Depth estimation failed")
          /\ epc' = "raised"
    /\ UNCHANGED <<est, loads, last, image, ConvertVars, OutsideConvert>>

\* the caller of estimate takes the depth map (or the exception)
EstimateDone ==
    /\ cpc = "idle"
    /\ epc \in {"returned", "raised"}
    /\ last' = Push(last, IF epc = "returned" THEN "estimate" ELSE "estimate_raised")
    /\ epc' = "idle"
    /\ image' = NoGrid
    /\ eres' = NoResult
    /\ UNCHANGED <<est, loads, ConvertVars, OutsideConvert>>

\* estimator.release() (lines 161-179)
ReleaseCall ==
    /\ cpc = "idle" /\ epc = "idle"
    /\ est # NoEstimator
    /\ est' = Release(est)
    /\ loads' = 0
    /\ last' = Push(last, "release")
    /\ UNCHANGED <<epc, image, eres, ConvertVars, OutsideConvert>>

\* converter.release_model() (converter.py lines 167-176): the estimator is
\* released and the converter forgets it
ReleaseModel ==
    /\ cpc = "idle" /\ epc = "idle"
    /\ est # NoEstimator
    /\ est' = NoEstimator
    /\ loads' = 0
    /\ last' = Push(last, "release_model")
    /\ UNCHANGED <<epc, image, eres, ConvertVars, OutsideConvert>>

\* converter.convert(input_path, output_path, config, generate_stl) is called
\* (lines 93-94)
ConvertCall ==
    /\ cpc = "idle" /\ epc = "idle"
    /\ \E f \in ConvertFiles,
          o \in {None, [stem |-> "out", suffix |-> ".scad"],
                 [stem |-> "out", suffix |-> ".txt"]},
          c \in {None, NewConfig([DefaultArgs EXCEPT !.detail_level = MaxDetail,
                                                     !.invert_depth = TRUE])},
          g \in BOOLEAN, cb \in {None, [kind |-> "callable"]} :
           /\ cargs' = [input_path |-> f, output_path |-> o, config |-> c,
                        generate_stl |-> g]
           /\ clocals' = [NewLocals(c) EXCEPT !.progress_callback = cb]
    /\ cpc' = "load"
    /\ cres' = NoResult
    /\ UNCHANGED <<EstimatorVars, OutsideConvert>>

\* stage 1, lines 102-105
ConvLoad ==
    /\ cpc = "load"
    /\ LET img == Load(cargs.input_path, DefaultMaxDimension)
           l0 == ReportProgress(clocals, "Loading image", 0)
       IN  IF img.kind = "raise"
           THEN /\ cpc' = "raised"
                /\ cres' = img
                /\ clocals' = l0
           ELSE /\ cpc' = "estimate"
                /\ cres' = cres
                /\ clocals' = ReportProgress([l0 EXCEPT !.image = img],
                                             "Loading image", 1)
    /\ UNCHANGED <<cargs, EstimatorVars, OutsideConvert>>

\* stage 2, lines 108-110: _get_depth_estimator creates the estimator when the
\* converter has none, and estimate(image) is called
ConvEstimateCall ==
    /\ cpc = "estimate"
    /\ clocals' = ReportProgress(clocals, "Estimating depth", 0)
    /\ IF est = NoEstimator
       THEN est' = NewEstimator /\ loads' = 0 /\ last' = Push(last, "construct")
       ELSE UNCHANGED <<est, loads, last>>
    /\ image' = clocals.image
    /\ epc' = "validate"
    /\ eres' = NoResult
    /\ cpc' = "estimating"
    /\ UNCHANGED <<cargs, cres, OutsideConvert>>

\* lines 110-111 with a failure of estimate re-raised as RuntimeError
ConvEstimateReturnWraps ==
    /\ cpc = "estimating"
    /\ epc \in {"returned", "raised"}
    /\ last' = Push(last, IF epc = "returned" THEN "estimate" ELSE "estimate_raised")
    /\ IF epc = "returned"
       THEN /\ clocals' = ReportProgress([clocals EXCEPT !.depth_map = eres],
                                         "Estimating depth", 1)
            /\ cpc' = "analyze"
            /\ cres' = cres
       ELSE /\ clocals' = clocals
            /\ cpc' = "raised"
            /\ cres' = Raised("RuntimeError", eres.msg)
    /\ epc' = "idle"
    /\ image' = NoGrid
    /\ eres' = NoResult
    /\ UNCHANGED <<est, loads, cargs, OutsideConvert>>

\* lines 110-111: estimate returns to convert, or its exception leaves convert
ConvEstimateReturn ==
    /\ cpc = "estimating"
    /\ epc \in {"returned", "raised"}
    /\ last' = Push(last, IF epc = "returned" THEN "estimate" ELSE "estimate_raised")
    /\ IF epc = "returned"
       THEN /\ clocals' = ReportProgress([clocals EXCEPT !.depth_map = eres],
                                         "Estimating depth", 1)
            /\ cpc' = "analyze"
            /\ cres' = cres
       ELSE /\ clocals' = clocals
            /\ cpc' = "raised"
            /\ cres' = eres
    /\ epc' = "idle"
    /\ image' = NoGrid
    /\ eres' = NoResult
    /\ UNCHANGED <<est, loads, cargs, OutsideConvert>>

\* stage 3, lines 114-116
ConvAnalyze ==
    /\ cpc = "analyze"
    /\ LET l0 == ReportProgress(clocals, "Processing depth", 0)
           out == ValidateDepthMap(clocals.depth_map)
       IN  IF out # "ok"
           THEN /\ cpc' = "raised"
                /\ cres' = Raised("ValueError", out)
                /\ clocals' = l0
           ELSE /\ cpc' = "generate"
                /\ cres' = cres
                /\ clocals' =
                       ReportProgress(
                           [l0 EXCEPT !.height_data =
                                          Analyze(clocals.depth_map, clocals.config)],
                           "Processing depth", 1)
    /\ UNCHANGED <<cargs, EstimatorVars, OutsideConvert>>

\* stage 4, lines 119-121
ConvGenerate ==
    /\ cpc = "generate"
    /\ LET l0 == ReportProgress(clocals, "Generating OpenSCAD", 0)
           code == GenerateScad(clocals.height_data)
       IN  IF code.kind = "raise"
           THEN cpc' = "raised" /\ cres' = code /\ clocals' = l0
           ELSE /\ cpc' = "save"
                /\ cres' = cres
                /\ clocals' = ReportProgress([l0 EXCEPT !.scad_code = code],
                                             "Generating OpenSCAD", 1)
    /\ UNCHANGED <<cargs, EstimatorVars, OutsideConvert>>

\* lines 124-128
ConvSave ==
    /\ cpc = "save"
    /\ IF cargs.output_path = None
       THEN cpc' = "export" /\ cres' = cres /\ clocals' = clocals
       ELSE \E writable \in BOOLEAN :
                LET saved == SaveScad(cargs.output_path, writable)
                IN  IF writable
                    THEN /\ cpc' = "export"
                         /\ cres' = cres
                         /\ clocals' = [clocals EXCEPT !.scad_path = saved]
                    ELSE cpc' = "raised" /\ cres' = saved /\ clocals' = clocals
    /\ UNCHANGED <<cargs, EstimatorVars, OutsideConvert>>

\* stage 5 rendering whenever a .scad was saved, whatever generate_stl is
ConvExportIgnoresFlag ==
    /\ cpc = "export"
    /\ IF clocals.scad_path # None
       THEN \E x \in {y \in Exporters : y.openscad_path = ""}, run \in Runs :
                LET l0 == ReportProgress(clocals, "Rendering STL", 0)
                    out == Export(x, clocals.scad_path, TRUE, None, run)
                IN  IF out.kind = "raise"
                    THEN cpc' = "raised" /\ cres' = out /\ clocals' = l0
                    ELSE /\ cpc' = "returned"
                         /\ clocals' = ReportProgress(
                                           [l0 EXCEPT !.stl_path = out.path],
                                           "Rendering STL", 1)
                         /\ cres' = ConversionResult(clocals')
       ELSE /\ cpc' = "returned"
            /\ clocals' = clocals
            /\ cres' = ConversionResult(clocals)
    /\ UNCHANGED <<cargs, EstimatorVars, OutsideConvert>>

\* stage 5 and the result, lines 131-146: the converter's exporter is
\* STLExporter(), on any system and with any run of the renderer
ConvExport ==
    /\ cpc = "export"
    /\ IF cargs.generate_stl /\ clocals.scad_path # None
       THEN \E x \in {y \in Exporters : y.openscad_path = ""}, run \in Runs :
                LET l0 == ReportProgress(clocals, "Rendering STL", 0)
                    out == Export(x, clocals.scad_path, TRUE, None, run)
                IN  IF out.kind = "raise"
                    THEN cpc' = "raised" /\ cres' = out /\ clocals' = l0
                    ELSE /\ cpc' = "returned"
                         /\ clocals' = ReportProgress(
                                           [l0 EXCEPT !.stl_path = out.path],
                                           "Rendering STL", 1)
                         /\ cres' = ConversionResult(clocals')
       ELSE /\ cpc' = "returned"
            /\ clocals' = clocals
            /\ cres' = ConversionResult(clocals)
    /\ UNCHANGED <<cargs, EstimatorVars, OutsideConvert>>

\* the caller takes the result (or the exception); convert's locals are gone
ConvertDone ==
    /\ cpc \in {"returned", "raised"}
    /\ cpc' = "idle"
    /\ cargs' = NoCall
    /\ clocals' = NoCall
    /\ cres' = NoResult
    /\ UNCHANGED <<EstimatorVars, OutsideConvert>>

NextConvert ==
    \/ ConstructEstimator
    \/ EstimateCall
    \/ EstValidate
    \/ EstEnsureLoaded
    \/ EstInfer
    \/ EstimateDone
    \/ ReleaseCall
    \/ ReleaseModel
    \/ ConvertCall
    \/ ConvLoad
    \/ ConvEstimateCall
    \/ ConvEstimateReturn
    \/ ConvAnalyze
    \/ ConvGenerate
    \/ ConvSave
    \/ ConvExport
    \/ ConvertDone

SpecConvert == Init /\ [][NextConvert]_vars

----------------------------------------------------------------------------
(* The command line *)

\* the state outside the command line program and the converter it creates
OutsideCli == <<CoreVars, ExportVars, reqs, shared>>

\* an exception reaches main's except clauses: it is handled (printed, and
\* a code returned) or it leaves main
MainExcept(x) ==
    /\ margs' = [margs EXCEPT !.raised = x]
    /\ IF MainHandler(x).kind = "handled"
       THEN /\ stderr' = Append(stderr, MainHandler(x).printed)
            /\ mres' = MainHandler(x).code
            /\ mpc' = "returned"
       ELSE /\ stderr' = stderr
            /\ mres' = x
            /\ mpc' = "escaped"

\* the program is started with a command line, by one of the entry points
CliRun ==
    /\ mpc = "idle" /\ cpc = "idle" /\ epc = "idle"
    /\ \E argv \in CommandLines, entry \in {"script", "module"} :
           margs' = [argv |-> argv, entry |-> entry, parsed_args |-> None,
                     log_level |-> None, config |-> None, output_path |-> None,
                     result |-> None, raised |-> None]
    /\ mpc' = "parse"
    /\ est' = NoEstimator /\ loads' = 0 /\ last' = <<>>
    /\ UNCHANGED <<mres, stderr, status, epc, image, eres, ConvertVars, OutsideCli>>

\* line 194: parse_args; argparse prints its usage error on stderr
MainParse ==
    /\ mpc = "parse"
    /\ LET a == ParseArgs(margs.argv)
       IN  IF a.kind = "raise"
           THEN /\ margs' = [margs EXCEPT !.raised = a]
                /\ stderr' = IF a.code # 0 THEN Append(stderr, <<"usage: ", a.msg>>)
                              ELSE stderr
                /\ mres' = a
                /\ mpc' = IF MainHandler(a).kind = "handled" THEN "returned"
                          ELSE "escaped"
           ELSE /\ margs' = [margs EXCEPT !.parsed_args = a]
                /\ mpc' = "validate"
                /\ UNCHANGED <<mres, stderr>>
    /\ UNCHANGED <<status, EstimatorVars, ConvertVars, OutsideCli>>

\* line 195: validate_args
MainValidate ==
    /\ mpc = "validate"
    /\ LET x == ValidateArgs(margs.parsed_args)
       IN  IF x # None THEN MainExcept(x)
           ELSE mpc' = "prepare" /\ UNCHANGED <<margs, mres, stderr>>
    /\ UNCHANGED <<status, EstimatorVars, ConvertVars, OutsideCli>>

\* lines 197-213: the log level, build_config and the output path
MainPrepare ==
    /\ mpc = "prepare"
    /\ LET c == BuildConfig(margs.parsed_args)
       IN  IF c.kind = "raise"
           THEN MainExcept(c)
           ELSE /\ margs' = [margs EXCEPT
                                !.log_level =
                                    IF margs.parsed_args.quiet THEN "ERROR"
                                    ELSE IF margs.parsed_args.verbose THEN "DEBUG"
                                    ELSE "INFO",
                                !.config = c,
                                !.output_path =
                                    IF margs.parsed_args.output = None
                                    THEN WithSuffix(
                                             [stem |-> "input",
                                              suffix |-> margs.parsed_args.input.suffix],
                                             ".scad")
                                    ELSE margs.parsed_args.output]
                /\ mpc' = "convert"
                /\ UNCHANGED <<mres, stderr>>
    /\ UNCHANGED <<status, EstimatorVars, ConvertVars, OutsideCli>>

\* lines 216-223: Converter() and the call of convert
MainConvertCall ==
    /\ mpc = "convert" /\ cpc = "idle"
    /\ cargs' = [input_path |-> margs.parsed_args.input,
                 output_path |-> margs.output_path, config |-> margs.config,
                 generate_stl |-> margs.parsed_args.stl]
    /\ clocals' = NewLocals(margs.config)
    /\ cpc' = "load"
    /\ cres' = NoResult
    /\ mpc' = "converting"
    /\ UNCHANGED <<margs, mres, stderr, status, EstimatorVars, OutsideCli>>

\* line 218: convert returns its result, or its exception reaches main's
\* except clauses
MainConvertReturn ==
    /\ mpc = "converting"
    /\ cpc \in {"returned", "raised"}
    /\ IF cpc = "returned"
       THEN /\ margs' = [margs EXCEPT !.result = cres]
            /\ mpc' = "report"
            /\ UNCHANGED <<mres, stderr>>
       ELSE MainExcept(cres)
    /\ cpc' = "idle"
    /\ cargs' = NoCall
    /\ clocals' = NoCall
    /\ cres' = NoResult
    /\ UNCHANGED <<status, EstimatorVars, OutsideCli>>

\* lines 226-231: the results are logged and main returns 0
MainReport ==
    /\ mpc = "report"
    /\ mres' = 0
    /\ mpc' = "returned"
    /\ UNCHANGED <<margs, stderr, status, EstimatorVars, ConvertVars, OutsideCli>>

\* the user interrupts the program while main is inside its try block:
\* KeyboardInterrupt unwinds whatever is running and reaches line 239
MainInterrupt ==
    /\ mpc \in {"parse", "validate", "prepare", "convert", "converting", "report"}
    /\ MainExcept(Raised("KeyboardInterrupt", ""))
    /\ cpc' = "idle"
    /\ cargs' = NoCall
    /\ clocals' = NoCall
    /\ cres' = NoResult
    /\ epc' = "idle"
    /\ image' = NoGrid
    /\ eres' = NoResult
    /\ UNCHANGED <<status, est, loads, last, OutsideCli>>

\* cli.py line 248, __main__.py line 12: the process ends
ProcessExit ==
    /\ mpc \in {"returned", "escaped"}
    /\ status' = ExitStatus(margs.entry, mpc, mres)
    /\ mpc' = "exited"
    /\ UNCHANGED <<margs, mres, stderr, EstimatorVars, ConvertVars, OutsideCli>>

\* the next run is a new process
ProcessGone ==
    /\ mpc = "exited"
    /\ mpc' = "idle"
    /\ margs' = NoCall
    /\ mres' = NoResult
    /\ status' = NoResult
    /\ stderr' = <<>>
    /\ est' = NoEstimator /\ loads' = 0 /\ last' = <<>>
    /\ UNCHANGED <<epc, image, eres, ConvertVars, OutsideCli>>

NextCli ==
    \/ CliRun
    \/ MainParse
    \/ MainValidate
    \/ MainPrepare
    \/ MainConvertCall
    \/ ConvLoad
    \/ ConvEstimateCall
    \/ EstValidate
    \/ EstEnsureLoaded
    \/ EstInfer
    \/ ConvEstimateReturn
    \/ ConvAnalyze
    \/ ConvGenerate
    \/ ConvSave
    \/ ConvExport
    \/ MainConvertReturn
    \/ MainReport
    \/ MainInterrupt
    \/ ProcessExit
    \/ ProcessGone

SpecCli == Init /\ [][NextCli]_vars

----------------------------------------------------------------------------
(* Concurrent analyze requests *)

\* everything but the requests
OutsideRequests ==
    <<CoreVars, EstimatorVars, ConvertVars, ExportVars, CliVars, shared>>

\* the working array kept as an attribute of the DepthAnalyzer, where every
\* request running on that object sees it
StoreHeightsOnSelf(rs, i, h) ==
    [j \in DOMAIN rs |->
        IF rs[j].analyzer = rs[i].analyzer THEN [rs[j] EXCEPT !.heights = h]
        ELSE rs[j]]

\* heights = ...: the working array is a local variable of the call
StoreHeights(rs, i, h) == [rs EXCEPT ![i].heights = h]

\* request i calls analyze(depth_map, config) on one of two DepthAnalyzer
\* objects
ReqCall(i) ==
    /\ reqs[i].pc = "idle"
    /\ \E a \in {1, 2},
          d \in {[kind |-> "ndarray", ndim |-> 1, size |-> 3]}
                 \cup {g \in GridsOf({<<2, 2>>}, {4, 30}) :
                           g.cells[<<1, 1>>] = 4 /\ g.cells[<<2, 2>>] = 30},
          c \in {NewConfig(DefaultArgs),
                 NewConfig([DefaultArgs EXCEPT !.smoothing = FALSE,
                                               !.invert_depth = TRUE]),
                 NewConfig([DefaultArgs EXCEPT !.detail_level = MaxDetail,
                                               !.max_height = 5])} :
           reqs' = [reqs EXCEPT ![i] = [IdleRequest EXCEPT !.pc = "validate",
                                           !.analyzer = a, !.depth_map = d,
                                           !.config = c]]
    /\ UNCHANGED OutsideRequests

\* line 55, and line 58 when nothing was raised
ReqValidate(i) ==
    /\ reqs[i].pc = "validate"
    /\ LET out == ValidateDepthMap(reqs[i].depth_map)
       IN  IF out = "ok"
           THEN reqs' = [StoreHeights(reqs, i, AsFloatCopy(reqs[i].depth_map))
                           EXCEPT ![i].pc = "detail"]
           ELSE reqs' = [reqs EXCEPT ![i].pc = "raised",
                                     ![i].result = Raised("ValueError", out)]
    /\ UNCHANGED OutsideRequests

\* line 61
ReqDetail(i) ==
    /\ reqs[i].pc = "detail"
    /\ reqs' = [StoreHeights(reqs, i,
                    ApplyDetailLevel(reqs[i].heights, reqs[i].config.detail_level))
                  EXCEPT ![i].pc = "invert"]
    /\ UNCHANGED OutsideRequests

\* lines 64-65
ReqInvert(i) ==
    /\ reqs[i].pc = "invert"
    /\ reqs' = [(IF reqs[i].config.invert_depth
                 THEN StoreHeights(reqs, i, Invert(reqs[i].heights))
                 ELSE reqs)
                  EXCEPT ![i].pc = "smooth"]
    /\ UNCHANGED OutsideRequests

\* lines 68-69
ReqSmooth(i) ==
    /\ reqs[i].pc = "smooth"
    /\ reqs' = [(IF reqs[i].config.smoothing
                 THEN StoreHeights(reqs, i, Smooth(reqs[i].heights))
                 ELSE reqs)
                  EXCEPT ![i].pc = "normalize"]
    /\ UNCHANGED OutsideRequests

\* lines 72-76
ReqNormalize(i) ==
    /\ reqs[i].pc = "normalize"
    /\ reqs' = [StoreHeights(reqs, i,
                    NormalizeToRange(reqs[i].heights, reqs[i].config.base_thickness,
                                     reqs[i].config.base_thickness
                                         + reqs[i].config.max_height))
                  EXCEPT ![i].pc = "size"]
    /\ UNCHANGED OutsideRequests

\* lines 78-94
ReqReturn(i) ==
    /\ reqs[i].pc = "size"
    /\ reqs' = [reqs EXCEPT ![i].pc = "returned",
                            ![i].result = MakeHeightData(reqs[i].heights,
                                                         reqs[i].config)]
    /\ UNCHANGED OutsideRequests

\* the caller of request i takes the result (or the exception)
ReqDone(i) ==
    /\ reqs[i].pc \in {"returned", "raised"}
    /\ reqs' = [reqs EXCEPT ![i] = IdleRequest]
    /\ UNCHANGED OutsideRequests

NextConcurrent ==
    \/ \E i \in Requests : ReqCall(i)
    \/ \E i \in Requests : ReqValidate(i)
    \/ \E i \in Requests : ReqDetail(i)
    \/ \E i \in Requests : ReqInvert(i)
    \/ \E i \in Requests : ReqSmooth(i)
    \/ \E i \in Requests : ReqNormalize(i)
    \/ \E i \in Requests : ReqReturn(i)
    \/ \E i \in Requests : ReqDone(i)

SpecConcurrent == Init /\ [][NextConcurrent]_vars

----------------------------------------------------------------------------
(* Concurrent calls on one Converter: the lazy initialisation *)

OutsideShared ==
    <<CoreVars, EstimatorVars, ConvertVars, ExportVars, CliVars, reqs>>

\* call i of convert (lines 101-109) or estimate_depth_only (lines 165-166)
\* has loaded its image and calls _get_depth_estimator
SharedCall(i) ==
    /\ shared.calls[i].pc = "idle"
    /\ \E m \in {"convert", "estimate_depth_only"} :
           shared' = [shared EXCEPT !.calls[i] =
                          [pc |-> "get", method |-> m, depth_estimator |-> 0]]
    /\ UNCHANGED OutsideShared

\* _get_depth_estimator, line 61: self._depth_estimator is read
GetDepthEstimatorCheck(i) ==
    /\ shared.calls[i].pc = "get"
    /\ shared' = [shared EXCEPT !.calls[i].pc =
                      IF shared.depth_estimator = 0 THEN "create" ELSE "return"]
    /\ UNCHANGED OutsideShared

\* lines 62-63: a DepthEstimator is made and stored in the attribute
GetDepthEstimatorCreate(i) ==
    /\ shared.calls[i].pc = "create"
    /\ shared' = [shared EXCEPT !.made = @ + 1,
                                !.depth_estimator = shared.made + 1,
                                !.calls[i].pc = "return"]
    /\ UNCHANGED OutsideShared

\* line 64: the attribute is read again and returned; estimate(image) is
\* called on it and validates the image the loader returned (line 107)
GetDepthEstimatorReturn(i) ==
    /\ shared.calls[i].pc = "return"
    /\ shared' = [shared EXCEPT !.calls[i].depth_estimator = shared.depth_estimator,
                                !.calls[i].pc = "ensure"]
    /\ UNCHANGED OutsideShared

\* _ensure_loaded, lines 56-57: self._model is read
EnsureLoadedCheck(i) ==
    /\ shared.calls[i].pc = "ensure"
    /\ shared' = [shared EXCEPT !.calls[i].pc =
                      IF shared.model[shared.calls[i].depth_estimator]
                      THEN "infer" ELSE "load"]
    /\ UNCHANGED OutsideShared

\* lines 59-90: the model is loaded and stored in the estimator, or loading
\* raises before from_pretrained has returned it
EnsureLoadedLoad(i) ==
    /\ shared.calls[i].pc = "load"
    /\ LET e == shared.calls[i].depth_estimator
       IN  \/ shared' = [shared EXCEPT !.model[e] = TRUE, !.loads[e] = @ + 1,
                                       !.calls[i].pc = "infer"]
           \/ shared' = [shared EXCEPT !.calls[i].pc = "done"]
    /\ UNCHANGED OutsideShared

\* lines 110-140 and the rest of the call
SharedInfer(i) ==
    /\ shared.calls[i].pc = "infer"
    /\ shared' = [shared EXCEPT !.calls[i].pc = "done"]
    /\ UNCHANGED OutsideShared

\* the caller takes the result (or the exception)
SharedDone(i) ==
    /\ shared.calls[i].pc = "done"
    /\ shared' = [shared EXCEPT !.calls[i] = NewConverter.calls[i]]
    /\ UNCHANGED OutsideShared

NextShared ==
    \/ \E i \in Requests : SharedCall(i)
    \/ \E i \in Requests : GetDepthEstimatorCheck(i)
    \/ \E i \in Requests : GetDepthEstimatorCreate(i)
    \/ \E i \in Requests : GetDepthEstimatorReturn(i)
    \/ \E i \in Requests : EnsureLoadedCheck(i)
    \/ \E i \in Requests : EnsureLoadedLoad(i)
    \/ \E i \in Requests : SharedInfer(i)
    \/ \E i \in Requests : SharedDone(i)

SpecShared == Init /\ [][NextShared]_vars

----------------------------------------------------------------------------
(* The STL exporter *)

OutsideExport ==
    <<CoreVars, EstimatorVars, ConvertVars, CliVars, reqs, shared>>

\* exporter.export(scad_path, stl_path) runs on some exporter (lines 70-119);
\* run is how the command goes if it is started
ExportCall ==
    /\ xpc = "idle"
    /\ \E x \in Exporters, se \in BOOLEAN, run \in Runs,
          sa \in {[kind |-> "None"], [stem |-> "other", suffix |-> ".stl"]} :
           /\ xself' = [x |-> x, scad_path |-> [stem |-> "model", suffix |-> ".scad"],
                        scad_exists |-> se, stl_path |-> sa, run |-> run]
           /\ xres' = Export(x, xself'.scad_path, se, sa, run)
    /\ xpc' = IF xres'.kind = "raise" THEN "raised" ELSE "returned"
    /\ UNCHANGED OutsideExport

\* the caller takes the path (or the exception)
ExportDone ==
    /\ xpc \in {"returned", "raised"}
    /\ xpc' = "idle"
    /\ xself' = NoCall
    /\ xres' = NoResult
    /\ UNCHANGED OutsideExport

NextExport ==
    \/ ExportCall
    \/ ExportDone

SpecExport == Init /\ [][NextExport]_vars

----------------------------------------------------------------------------
(* Properties *)

ValidConfig(c) == c.kind = "ConversionConfig" /\ PostInit(c) = "ok"

Abs(x) == IF x < 0 THEN -x ELSE x

LastRan == IF ran = <<>> THEN "none" ELSE ran[Len(ran)]

\* every cell value of g lies in [lo, hi]
InRange(g, lo, hi) ==
    /\ g.den > 0
    /\ \A p \in Pat(g) : lo * g.den <= g.cells[p] /\ g.cells[p] <= hi * g.den

\* every cell value of g equals v
AllEqual(g, v) ==
    /\ g.den > 0
    /\ \A p \in Pat(g) : g.cells[p] = v * g.den

\* C1: for a valid configuration, every value of the height grid that analyze
\* returns lies in [base_thickness, base_thickness + max_height], whatever
\* detail_level, smoothing and invert_depth are.
C1_HeightsInRange ==
    (pc = "returned" /\ ValidConfig(cfg)) =>
        InRange(result.heights, cfg.base_thickness,
                cfg.base_thickness + cfg.max_height)

\* a resampled, inverted, smoothed, non-flat grid was returned, and it touches
\* both ends of the range
C1_Witness ==
    /\ pc = "returned"
    /\ ValidConfig(cfg)
    /\ ran = <<"validate", "detail", "invert", "smooth", "normalize">>
    /\ cfg.detail_level = MaxDetail
    /\ GridMin(depth_map) > 0
    /\ GridMin(result.heights) = cfg.base_thickness * result.heights.den
    /\ GridMax(result.heights) =
           (cfg.base_thickness + cfg.max_height) * result.heights.den
    /\ cfg.max_height > 0

\* C2: when the grid that reaches normalize-to-range has max - min < 1e-6,
\* every returned value is exactly base_thickness; a constant depth_map gives
\* a constant result equal to base_thickness for every valid configuration.
C2_FlatGivesBase ==
    /\ (pc \in {"size", "returned"}
            /\ GridMax(stepIn) - GridMin(stepIn) < FlatEps * stepIn.den) =>
           AllEqual(heights, cfg.base_thickness)
    /\ (pc = "returned" /\ ValidConfig(cfg)
            /\ GridMax(depth_map) = GridMin(depth_map)) =>
           AllEqual(result.heights, cfg.base_thickness)

\* a grid that is not constant but flatter than 1e-6 went through resampling,
\* inversion and smoothing and came out at base_thickness
C2_Witness ==
    /\ pc = "returned"
    /\ ran = <<"validate", "detail", "invert", "smooth", "normalize">>
    /\ cfg.detail_level # DetailOne
    /\ GridMax(stepIn) # GridMin(stepIn)
    /\ GridMax(stepIn) - GridMin(stepIn) < FlatEps * stepIn.den
    /\ AllEqual(result.heights, cfg.base_thickness)

\* the depth_map is one that the claim says analyze rejects
Rejected(d) == ~IsArray(d) \/ d.ndim # 2 \/ Size(d) = 0

\* C4: analyze rejects a depth_map that is not an array, not 2-D or empty by
\* raising at entry: only the validation has run, no working copy was made,
\* and no HeightData is returned.
C4_RejectsAtEntry ==
    (pc \notin {"idle", "validate"} /\ Rejected(depth_map)) =>
        /\ pc = "raised"
        /\ result.kind = "raise"
        /\ result.exc = "ValueError"
        /\ ran = <<"validate">>
        /\ heights = NoGrid

\* a 2-D array of zero elements was rejected
C4_Witness ==
    /\ pc = "raised"
    /\ IsArray(depth_map)
    /\ depth_map.ndim = 2
    /\ Size(depth_map) = 0
    /\ result = Raised("ValueError", "depth_map is empty")

\* the arguments are outside the ranges the claim names
OutOfRange(a) ==
    \/ a.base_thickness <= 0
    \/ a.max_height <= 0
    \/ a.model_width <= 0
    \/ a.detail_level < MinDetail
    \/ a.detail_level > MaxDetail
    \/ a.output_style # "relief"

\* C5: a construction (direct or through from_dict) with an argument out of
\* range raises and yields no object; every other construction succeeds and
\* yields the object holding the arguments.
C5_ConstructionValidates ==
    (built.kind \in {"init", "from_dict"}) =>
        IF OutOfRange(built.args)
        THEN built.raised.kind = "raise" /\ built.raised.exc = "ValueError"
                /\ cfg = NoConfig
        ELSE built.raised = NoResult /\ cfg = NewConfig(built.args)

\* from_dict was given detail_level 2.5 alone and raised
C5_Witness ==
    /\ built.kind = "from_dict"
    /\ built.args.detail_level > MaxDetail
    /\ built.args.base_thickness = DefaultArgs.base_thickness
    /\ built.raised = Raised("ValueError", "detail_level must be between 0.5 and 2.0")
    /\ cfg = NoConfig

\* C6: every configuration object that analyze receives satisfies
\* base_thickness > 0, max_height > 0, model_width > 0 and
\* 0.5 <= detail_level <= 2.0.
C6_ReceivedConfigValid ==
    (pc \notin {"idle", "stats"}) =>
        /\ cfg.base_thickness > 0
        /\ cfg.max_height > 0
        /\ cfg.model_width > 0
        /\ MinDetail <= cfg.detail_level
        /\ cfg.detail_level <= MaxDetail

\* the cells where g takes the value v
CellsAt(g, v) == {p \in Pat(g) : g.cells[p] = v}

\* C7: inversion maps each value v to max - v + min; the inverted grid has the
\* minimum and the maximum of the original, and when these differ its maximum
\* sits where the original minimum was, away from the original maximum.
C7_InvertPreservesRange ==
    (pc = "smooth" /\ LastRan = "invert") =>
        /\ heights.den = stepIn.den
        /\ \A p \in Pat(stepIn) :
               heights.cells[p] = GridMax(stepIn) - stepIn.cells[p] + GridMin(stepIn)
        /\ GridMin(heights) = GridMin(stepIn)
        /\ GridMax(heights) = GridMax(stepIn)
        /\ (GridMax(stepIn) # GridMin(stepIn)) =>
               /\ CellsAt(heights, GridMax(heights)) = CellsAt(stepIn, GridMin(stepIn))
               /\ CellsAt(heights, GridMax(heights))
                      \cap CellsAt(stepIn, GridMax(stepIn)) = {}

\* a grid whose minimum is not zero and differs from its maximum was inverted
C7_Witness ==
    /\ pc = "smooth"
    /\ LastRan = "invert"
    /\ GridMin(stepIn) > 0
    /\ GridMax(stepIn) > GridMin(stepIn)
    /\ heights # stepIn

\* C8: analyze returns width_mm = config.model_width and
\* height_mm = width_mm * rows / cols for the rows and cols of the returned
\* grid, and resolution = (rows, cols) of that grid.
C8_PhysicalSize ==
    (pc = "returned") =>
        /\ result.kind = "HeightData"
        /\ result.heights = heights
        /\ result.width_mm = cfg.model_width
        /\ result.height_mm.den > 0
        /\ result.height_mm.num * result.heights.cols =
               result.width_mm * result.heights.rows * result.height_mm.den
        /\ result.resolution = <<result.heights.rows, result.heights.cols>>

\* a grid that is not square was resampled to another shape and returned
C8_Witness ==
    /\ pc = "returned"
    /\ result.heights.rows # result.heights.cols
    /\ result.heights.rows # depth_map.rows
    /\ result.resolution = <<MaxDim, 128>>
    /\ result.height_mm = [num |-> 100 * MaxDim, den |-> 128]

\* |height_mm - model_width * h / w| < tol, with tol = 1 / tolDen, for the
\* shape (h, w) of the depth_map passed in
AspectOfInput(r, d, tolDen) ==
    Abs(r.height_mm.num * d.cols - r.width_mm * d.rows * r.height_mm.den)
        <= (r.height_mm.den * d.cols - 1) \div tolDen

\* C9 as stated: for every valid depth_map of shape (h, w) and every valid
\* configuration, height_mm = model_width * h / w within 0.01.
C9_AspectOfInputAnyDetail ==
    (pc = "returned" /\ ValidConfig(cfg)) => AspectOfInput(result, depth_map, 100)

\* C9 amended: with detail_level = 1.0 the height is exactly
\* model_width * h / w for the shape (h, w) of the depth_map passed in.
C9_AspectOfInputAtUnitDetail ==
    (pc = "returned" /\ ValidConfig(cfg) /\ cfg.detail_level = DetailOne) =>
        /\ result.height_mm.den > 0
        /\ result.height_mm.num * depth_map.cols =
               result.width_mm * depth_map.rows * result.height_mm.den

\* a depth_map that is not square and smaller than 32 cells was analyzed at 1.0
C9_Witness ==
    /\ pc = "returned"
    /\ ValidConfig(cfg)
    /\ cfg.detail_level = DetailOne
    /\ depth_map.rows = 1
    /\ depth_map.cols = 2
    /\ result.height_mm = [num |-> 100, den |-> 2]

\* neither detail level 0.5 nor 2.0 is clamped on the shape of d
Unclamped(d) ==
    /\ (MinDetail * d.rows) \div DetailOne >= MinDim
    /\ (MinDetail * d.cols) \div DetailOne >= MinDim
    /\ 2 * d.rows <= MaxDim
    /\ 2 * d.cols <= MaxDim

Points(r) == r.heights.rows * r.heights.cols

\* C10: for a depth_map clamped at neither level, the grid analyze returned at
\* detail_level 2.0 has strictly more points than the grid analyze returns for
\* the same depth_map at detail_level 0.5.
C10_MoreDetailMorePoints ==
    (pc = "returned" /\ cfg.detail_level = MaxDetail /\ Unclamped(depth_map)) =>
        /\ result = Analyze(depth_map, cfg)
        /\ Points(result)
               > Points(Analyze(depth_map, [cfg EXCEPT !.detail_level = MinDetail]))

\* a 65 x 100 depth_map was analyzed at 2.0 and came back as 130 x 200, where
\* 0.5 gives 32 x 50
C10_Witness ==
    /\ pc = "returned"
    /\ Unclamped(depth_map)
    /\ cfg.detail_level = MaxDetail
    /\ depth_map.rows = 65
    /\ Points(result) = 130 * 200
    /\ Points(Analyze(depth_map, [cfg EXCEPT !.detail_level = MinDetail])) = 32 * 50

\* the dictionary r reports the least and the greatest cell value of d
ReportsExtremes(r, d) ==
    /\ r.min.den = d.den /\ r.max.den = d.den
    /\ \A p \in Pat(d) : r.min.num <= d.cells[p] /\ d.cells[p] <= r.max.num
    /\ \E p \in Pat(d) : r.min.num = d.cells[p]
    /\ \E p \in Pat(d) : r.max.num = d.cells[p]
    /\ r.shape = <<d.rows, d.cols>>

\* C11: no step of analyze, whether it goes on to return or raises, and no
\* step of get_statistics changes the shape or the values of the array passed
\* in as depth_map; get_statistics reports that array's own minimum and
\* maximum.
C11_ArgumentUnchanged ==
    [][/\ (pc # "idle" /\ pc' # "idle") => (depth_map' = depth_map)
       /\ (pc' = "stats") => ReportsExtremes(result', depth_map')]_vars

\* analyze returned a grid that differs from the depth_map passed in, after
\* resampling, inverting and smoothing it
C11_Witness ==
    /\ pc = "returned"
    /\ ran = <<"validate", "detail", "invert", "smooth", "normalize">>
    /\ result.heights.rows # depth_map.rows
    /\ GridMax(depth_map) > GridMin(depth_map)
    /\ result.heights.cells # depth_map.cells

\* C12: every error raised by the configuration or by a pipeline stage is
\* derived from the root class ImageToScadError.
C12_ErrorsDeriveFromRoot ==
    /\ (built.kind \in {"init", "from_dict"} /\ built.raised.kind = "raise") =>
           IsSubclass(built.raised.exc, "ImageToScadError")
    /\ (result.kind = "raise") => IsSubclass(result.exc, "ImageToScadError")

\* the last estimator operation completed
LastOp == IF last = <<>> THEN "none" ELSE last[Len(last)]

\* C13: is_loaded is False after construction and after every release(),
\* whether or not the model was ever loaded and however often release() is
\* called; is_loaded is True when estimate() returns a depth map.
C13_IsLoadedLifecycle ==
    /\ (est # NoEstimator /\ epc = "idle" /\ LastOp \in {"construct", "release"}) =>
           ~IsLoaded(est)
    /\ (epc = "returned") => IsLoaded(est)

\* release() was called twice in a row on an estimator that had loaded its
\* model before
C13_Witness ==
    /\ last = <<"release", "release">>
    /\ est # NoEstimator
    /\ est.torch
    /\ ~IsLoaded(est)

\* C14: construction loads nothing; an estimate() that returns has the model
\* loaded, and loaded once since the construction or the last release; an
\* estimate() on a loaded model does not load again, so the model is loaded
\* at most once between two releases; the converter keeps nothing of a
\* convert call once the call is over.
C14_LoadedOnceBetweenReleases ==
    /\ loads <= 1
    /\ (est # NoEstimator) => (IsLoaded(est) <=> (loads = 1))
    /\ (LastOp = "construct" /\ epc = "idle") =>
           (loads = 0 /\ ~est.model /\ ~est.processor /\ ~est.torch)
    /\ (epc = "returned") => (loads = 1)
    /\ (cpc = "idle") => (clocals = NoCall)

\* after an estimate and a release, a further estimate returned: the model
\* was loaded again, once
C14_Witness ==
    /\ last = <<"estimate", "release">>
    /\ epc = "returned"
    /\ IsLoaded(est)
    /\ loads = 1

\* C15: every raster load returns (convert's image, once stage 1 has run) is
\* a 3-channel 8-bit array whose height and width are both at least 64.
C15_LoadedRasterLargeEnough ==
    (cpc \notin {"idle", "load", "raised"}) =>
        /\ clocals.image.kind = "ndarray"
        /\ clocals.image.ndim = 3
        /\ clocals.image.dtype = "uint8"
        /\ clocals.image.shape[3] = 3
        /\ clocals.image.shape[1] >= MinDimension
        /\ clocals.image.shape[2] >= MinDimension

\* the messages that report a renderer that cannot be found
NotFoundReports ==
    {"OpenSCAD not found at", "OpenSCAD not found", "OpenSCAD executable not found"}

\* the export in progress has an input file but no renderer: the configured
\* path does not exist, or none is configured and no name or location is
\* found, or the command found cannot be started
RendererMissing ==
    /\ xself.scad_exists
    /\ \/ xself.x.openscad_path # "" /\ ~xself.x.path_exists
       \/ xself.x.openscad_path = "" /\ xself.x.on_path = {}
              /\ xself.x.installed = {}
       \/ ~xself.run.starts

\* the export in progress has an input file and a renderer that starts and
\* renders longer than the timeout
RendererTimesOut ==
    /\ xself.scad_exists
    /\ ~RendererMissing
    /\ xself.run.seconds > xself.x.timeout

\* C16: an export that ends because the renderer cannot be found and an
\* export that ends because rendering exceeds the timeout raise errors the
\* caller can tell apart: STLExportError with a "not found" message in the
\* first case, with the "timed out" message in the second, and no other
\* outcome of export carries either report.
C16_NotFoundAndTimeoutDistinct ==
    (xpc \in {"returned", "raised"}) =>
        /\ RendererMissing <=>
               (xres.kind = "raise" /\ xres.exc = "STLExportError"
                    /\ xres.msg \in NotFoundReports)
        /\ RendererTimesOut <=>
               (xres.kind = "raise" /\ xres.exc = "STLExportError"
                    /\ xres.msg = "OpenSCAD rendering timed out")
        /\ "OpenSCAD rendering timed out" \notin NotFoundReports

\* a renderer found through shutil.which rendered one second longer than the
\* timeout, and the export raised the timeout report
C16_Witness ==
    /\ xpc = "raised"
    /\ FindOpenscad(xself.x).kind = "cmd"
    /\ FindOpenscad(xself.x).via = "which"
    /\ xself.run.seconds = xself.x.timeout + 1
    /\ xres = Raised("STLExportError", "OpenSCAD rendering timed out")

\* main has ended without an exception other than the named one
EndedWith(exc) ==
    /\ mpc \in {"returned", "escaped"}
    /\ margs.raised # None
    /\ margs.raised.exc = exc

\* the value main returned is the one its outcome calls for: 0 after a
\* completed conversion, 130 after KeyboardInterrupt, 1 after another failure
ReturnCodeMatches ==
    /\ mpc = "returned"
    /\ IF margs.raised = None
       THEN /\ mres = 0
            /\ margs.result.kind = "ConversionResult"
            /\ ValidateArgs(margs.parsed_args) = None
       ELSE IF margs.raised.exc = "KeyboardInterrupt" THEN mres = 130
       ELSE mres = 1

\* C17 as stated: main returns 0 only after a completed conversion, 1 for a
\* missing input, an out-of-range argument or any other error, 130 after
\* KeyboardInterrupt, and no failure leaves main as an exception.
C17_MainReturnCodes ==
    (mpc \in {"returned", "escaped"}) => ReturnCodeMatches

\* C17, amended: the same for every failure other than the SystemExit that
\* argparse raises for a command line it rejects (or for --help and
\* --version), which leaves main with argparse's exit code.
C17_MainReturnCodesParsed ==
    (mpc \in {"returned", "escaped"}) =>
        IF EndedWith("SystemExit")
        THEN mpc = "escaped" /\ mres = margs.raised /\ mres.code \in {0, 2}
        ELSE ReturnCodeMatches

C17_Witness ==
    /\ EndedWith("STLExportError")
    /\ mpc = "returned"
    /\ mres = 1

\* the run was a conversion that failed
FailedConversion ==
    /\ margs.raised # None
    /\ ~(margs.raised.exc = "SystemExit" /\ margs.raised.code = 0)

\* C18: every failed conversion started from the command line prints the
\* error and ends the process with a non-zero status, whichever entry point
\* started it.
C18_FailureExitsNonZero ==
    (mpc = "exited" /\ FailedConversion) => (stderr # <<>> /\ status # 0)

\* C19: a convert call with output_path = None that returns has saved the
\* program under a path derived from the input, so scad_path is not None.
C19_DefaultOutputPath ==
    (cpc = "returned" /\ cargs.output_path = None) => (cres.scad_path # None)

\* C20: however two analyze requests interleave, on the same DepthAnalyzer
\* or on two, each request that returns holds the height data analyze gives
\* for its own depth_map and config when run alone, and each request that
\* raised holds the error of its own depth_map.
C20_RequestsIndependent ==
    \A i \in Requests :
        /\ (reqs[i].pc = "returned") =>
               (reqs[i].result = Analyze(reqs[i].depth_map, reqs[i].config))
        /\ (reqs[i].pc = "raised") =>
               (reqs[i].result =
                    Raised("ValueError", ValidateDepthMap(reqs[i].depth_map)))

C20_Witness ==
    /\ reqs[1].pc = "returned" /\ reqs[2].pc = "smooth"
    /\ reqs[1].analyzer = reqs[2].analyzer
    /\ reqs[1].depth_map # reqs[2].depth_map
    /\ reqs[1].config # reqs[2].config
    /\ reqs[1].result.heights # reqs[2].heights

\* the place of a step in analyze
StepRank(s) ==
    CASE s = "validate" -> 1 [] s = "detail" -> 2 [] s = "invert" -> 3
      [] s = "smooth" -> 4 [] s = "normalize" -> 5

\* the steps analyze runs for a configuration, in order
StepsFor(c) ==
    <<"validate", "detail">>
        \o (IF c.invert_depth THEN <<"invert">> ELSE <<>>)
        \o (IF c.smoothing THEN <<"smooth">> ELSE <<>>)
        \o <<"normalize">>

\* what step s makes of its input h under configuration c
StepOutput(s, h, c) ==
    CASE s = "detail" -> ApplyDetailLevel(h, c.detail_level)
      [] s = "invert" -> Invert(h)
      [] s = "smooth" -> Smooth(h)
      [] s = "normalize" ->
             NormalizeToRange(h, c.base_thickness, c.base_thickness + c.max_height)

\* C21: analyze runs validate, resample (the grid is left as it is when
\* detail_level = 1.0), invert (only when invert_depth), smooth (only when
\* smoothing) and normalize in this order: the steps run so far are always a
\* prefix of the steps of the configuration, every step after validate takes
\* the heights the previous step left, and a returned call has run them all.
C21_FixedStepOrder ==
    [][/\ (pc' \notin {"idle", "stats"}) =>
              /\ \A i \in 1..Len(ran') : i <= Len(StepsFor(cfg'))
                                             /\ ran'[i] = StepsFor(cfg')[i]
              /\ \A i \in 1..(Len(ran') - 1) :
                     StepRank(ran'[i]) < StepRank(ran'[i + 1])
       /\ (pc' = "returned") => (ran' = StepsFor(cfg'))
       /\ (ran' # ran /\ Len(ran') > 1) =>
              /\ ran' = Append(ran, ran'[Len(ran')])
              /\ stepIn' = heights
              /\ heights' = StepOutput(ran'[Len(ran')], heights, cfg)
              /\ (ran'[Len(ran')] = "detail" /\ cfg.detail_level = DetailOne) =>
                     (heights' = heights)]_vars

C21_Witness ==
    /\ pc = "returned"
    /\ ran = <<"validate", "detail", "invert", "smooth", "normalize">>
    /\ cfg.detail_level = MaxDetail
    /\ stepIn # AsFloatCopy(depth_map)

\* C22: when the grid that reaches normalize-to-range has max - min >= 1e-6,
\* the normalized grid has minimum base_thickness and maximum base_thickness +
\* max_height, taken at the cells of the input's minimum and maximum, and two
\* cells keep their order (strictly, when max_height > 0).
C22_NormalizeIsLinearMap ==
    (pc \in {"size", "returned"}
         /\ GridMax(stepIn) - GridMin(stepIn) >= FlatEps * stepIn.den) =>
        /\ heights.den > 0
        /\ GridMin(heights) = cfg.base_thickness * heights.den
        /\ GridMax(heights) = (cfg.base_thickness + cfg.max_height) * heights.den
        /\ \A p \in Pat(stepIn) :
               /\ (stepIn.cells[p] = GridMin(stepIn)) =>
                      (heights.cells[p] = cfg.base_thickness * heights.den)
               /\ (stepIn.cells[p] = GridMax(stepIn)) =>
                      (heights.cells[p] =
                           (cfg.base_thickness + cfg.max_height) * heights.den)
        /\ \A p, q \in Pat(stepIn) :
               /\ (stepIn.cells[p] <= stepIn.cells[q]) =>
                      (heights.cells[p] <= heights.cells[q])
               /\ (cfg.max_height > 0 /\ stepIn.cells[p] < stepIn.cells[q]) =>
                      (heights.cells[p] < heights.cells[q])

\* a grid with three different values was normalized to three different
\* heights
C22_Witness ==
    /\ pc = "returned"
    /\ ValidConfig(cfg)
    /\ GridMax(stepIn) - GridMin(stepIn) >= FlatEps * stepIn.den
    /\ Cardinality(CellSet(stepIn)) = 3
    /\ Cardinality(CellSet(heights)) = 3

\* r is floor(n x detail) brought into [MinDim, MaxDim], detail in quarters
ClampedFloor(r, n, detail) ==
    /\ MinDim <= r /\ r <= MaxDim
    /\ (r > MinDim) => (DetailOne * r <= n * detail)
    /\ (r < MaxDim) => (n * detail < DetailOne * (r + 1))

\* C23: with detail_level # 1.0 the resample step hands on, and analyze
\* returns, a grid of clamp(floor(rows x detail_level), 32, 2048) rows and
\* likewise many columns, the very grid it was given when that is the size it
\* already has; with detail_level = 1.0 the grid keeps the size of the input,
\* whatever that size is.
C23_ResampledResolution ==
    /\ (pc = "invert") =>
          IF cfg.detail_level = DetailOne
          THEN heights = stepIn
          ELSE /\ ClampedFloor(heights.rows, stepIn.rows, cfg.detail_level)
               /\ ClampedFloor(heights.cols, stepIn.cols, cfg.detail_level)
               /\ (<<heights.rows, heights.cols>> = <<stepIn.rows, stepIn.cols>>)
                      => (heights = stepIn)
    /\ (pc = "returned") =>
          IF cfg.detail_level = DetailOne
          THEN <<result.heights.rows, result.heights.cols>>
                   = <<depth_map.rows, depth_map.cols>>
          ELSE /\ ClampedFloor(result.heights.rows, depth_map.rows, cfg.detail_level)
               /\ ClampedFloor(result.heights.cols, depth_map.cols, cfg.detail_level)

\* a 48 x 64 depth_map came back from analyze at 0.5 as 32 x 32: the rows
\* raised to the lower limit, the columns halved
C23_Witness ==
    /\ pc = "returned"
    /\ cfg.detail_level = MinDetail
    /\ <<depth_map.rows, depth_map.cols>> = <<48, 64>>
    /\ <<result.heights.rows, result.heights.cols>> = <<32, 32>>

\* the stages of convert, in order
StageNames ==
    <<"Loading image", "Estimating depth", "Processing depth",
      "Generating OpenSCAD", "Rendering STL">>

\* the n-th call of a run that reports every boundary: the start of stage
\* (n + 1) \div 2 when n is odd, its completion when n is even
Checkpoint(n) == <<StageNames[(n + 1) \div 2], IF n % 2 = 1 THEN 0 ELSE 1>>

\* how many calls the observer has received when convert is at position p
CallsAt(p, rendered) ==
    CASE p = "load" -> {0}
      [] p = "estimate" -> {2}
      [] p = "estimating" -> {3}
      [] p = "analyze" -> {4}
      [] p = "generate" -> {6}
      [] p \in {"save", "export"} -> {8}
      [] p = "returned" -> IF rendered THEN {10} ELSE {8}
      [] p = "raised" -> {1, 3, 5, 7, 8, 9}

\* C24: the calls the progress observer has received during convert are the
\* stage boundaries passed so far, in order: for each stage (stage, 0.0) and
\* then (stage, 1.0), Rendering STL only when the STL is rendered; a stage's
\* start comes only after the completion of the stage before, every fraction
\* is 0.0 or 1.0, and nothing is reported between the boundaries.
C24_ProgressAtStageBoundaries ==
    (cpc # "idle" /\ clocals.progress_callback # None) =>
        /\ \A n \in 1..Len(clocals.progress) :
               /\ n <= 2 * Len(StageNames)
               /\ clocals.progress[n] = Checkpoint(n)
               /\ clocals.progress[n][2] \in {0, 1}
        /\ Len(clocals.progress)
               \in CallsAt(cpc, cargs.generate_stl /\ clocals.scad_path # None)
        /\ (cpc = "raised" /\ Len(clocals.progress) = 8) => (cres.exc = "OSError")

\* a conversion that rendered the STL returned after ten calls to the observer
C24_Witness ==
    /\ cpc = "returned"
    /\ clocals.progress_callback # None
    /\ cres.stl_path # None
    /\ Len(clocals.progress) = 10
    /\ clocals.progress[9] = <<"Rendering STL", 0>>
    /\ clocals.progress[10] = <<"Rendering STL", 1>>

\* how far convert has come: the stages in order, then the two ways out
ConvRank(p) ==
    CASE p = "idle" -> 0
      [] p = "load" -> 1
      [] p = "estimate" -> 2
      [] p = "estimating" -> 3
      [] p = "analyze" -> 4
      [] p = "generate" -> 5
      [] p = "save" -> 6
      [] p = "export" -> 7
      [] p \in {"returned", "raised"} -> 8

\* the stage whose start is reported at position p
StageAt(p) ==
    CASE p = "load" -> StageNames[1]
      [] p \in {"estimate", "estimating"} -> StageNames[2]
      [] p = "analyze" -> StageNames[3]
      [] p = "generate" -> StageNames[4]
      [] OTHER -> StageNames[5]

\* what the stage at position p raises, x being an exception that left it
RaisedByStage(p, x) ==
    CASE p = "load" -> x = Load(cargs.input_path, DefaultMaxDimension)
      [] p = "estimating" -> x = eres /\ epc = "raised"
      [] p = "analyze" -> x = Raised("ValueError", ValidateDepthMap(clocals.depth_map))
      [] p = "generate" -> x = GenerateScad(clocals.height_data)
      [] p = "save" -> cargs.output_path # None /\ x = SaveScad(cargs.output_path, FALSE)
      [] p = "export" ->
             \E y \in Exporters, run \in Runs :
                 x = Export(y, clocals.scad_path, TRUE, None, run)
      [] OTHER -> FALSE

LoadFailed ==
    /\ epc = "raised"
    /\ eres.exc = "DepthEstimationError"
    /\ eres.msg \in {"Missing required dependency", "Failed to load depth model"}

\* C26: when loading the model fails inside estimate(), the estimator is left
\* unloaded: is_loaded is False and neither a model nor a processor is kept,
\* so that the next estimate() loads in full.
C26_FailedLoadLeavesUnloaded ==
    LoadFailed =>
        /\ ~IsLoaded(est)
        /\ ~est.model
        /\ ~est.processor
        /\ EnsureLoaded(est, "ok").loaded

\* the valid detail levels a configuration is given, in quarters
DetailLevels == {MinDetail, 3, DetailOne, MaxDetail}

\* the number of points of the depth_map resampled at detail level d
PointsAt(d) ==
    LET h == ApplyDetailLevel(AsFloatCopy(depth_map), d)
    IN  h.rows * h.cols

\* the clamp to [MinDim, MaxDim] leaves both dimensions of d as they are
WithinLimits(d) ==
    /\ MinDim <= d.rows /\ d.rows <= MaxDim
    /\ MinDim <= d.cols /\ d.cols <= MaxDim

\* C27 as stated: for a fixed depth_map the number of points returned by
\* analyze does not decrease as detail_level grows over [0.5, 2.0], 1.0
\* included.  The grid analyze returns has the points of the resampled
\* depth_map at the configuration's level, and that number is compared with
\* the number at each other level.
C27_PointsMonotoneInDetail ==
    (pc = "returned" /\ cfg.detail_level \in DetailLevels) =>
        /\ Points(result) = PointsAt(cfg.detail_level)
        /\ \A d \in DetailLevels :
               /\ (d <= cfg.detail_level) => (PointsAt(d) <= Points(result))
               /\ (d >= cfg.detail_level) => (PointsAt(d) >= Points(result))

\* C27 amended: the number of points does not decrease as detail_level grows
\* over the levels other than 1.0; it does not decrease across 1.0 either
\* when the rows and the columns of the depth_map both lie in [32, 2048].
C27_PointsMonotoneOffUnitDetail ==
    (pc = "returned" /\ cfg.detail_level \in DetailLevels) =>
        /\ Points(result) = PointsAt(cfg.detail_level)
        /\ \A d \in DetailLevels :
               (WithinLimits(depth_map) \/ DetailOne \notin {d, cfg.detail_level}) =>
                   /\ (d <= cfg.detail_level) => (PointsAt(d) <= Points(result))
                   /\ (d >= cfg.detail_level) => (PointsAt(d) >= Points(result))

\* a 48 x 64 depth_map was analyzed at 1.0: 0.5 gives fewer points, 2.0 more
C27_Witness ==
    /\ pc = "returned"
    /\ cfg.detail_level = DetailOne
    /\ <<depth_map.rows, depth_map.cols>> = <<48, 64>>
    /\ Points(result) = 48 * 64
    /\ PointsAt(MinDetail) = 32 * 32
    /\ PointsAt(MaxDetail) = 96 * 128

InvalidImage(img) ==
    \/ img.kind # "ndarray"
    \/ img.ndim # 3
    \/ img.shape[3] # 3

\* C29: estimate validates the image before it touches the model: an invalid
\* image makes it raise ValueError at once, the estimator (is_loaded, what
\* was loaded and imported) left as it was; only a valid image reaches the
\* loading and the inference.
C29_ValidatedBeforeLoading ==
    [][/\ (epc = "validate" /\ epc' # "validate") =>
              /\ est' = est /\ loads' = loads
              /\ IF InvalidImage(image)
                 THEN /\ epc' = "raised"
                      /\ eres'.kind = "raise" /\ eres'.exc = "ValueError"
                 ELSE epc' = "load"
       /\ (epc' \in {"load", "infer", "returned"}) => ~InvalidImage(image')]_vars

\* estimate() on a loaded estimator raised for a 4-channel image, the model
\* still loaded
C29_Witness ==
    /\ epc = "raised"
    /\ eres.exc = "ValueError"
    /\ image = Raster(64, 64, 4)
    /\ IsLoaded(est)
    /\ loads = 1

\* C30: however two convert / estimate_depth_only calls on one Converter
\* interleave, with no release_model between them, one DepthEstimator is
\* made, every call runs on it, and the model is loaded at most once.
C30_OneEstimatorOneLoad ==
    /\ shared.made <= 1
    /\ shared.loads[1] + shared.loads[2] <= 1
    /\ \A i \in Requests :
           (shared.calls[i].pc \in {"ensure", "load", "infer"}) =>
               (shared.made = 1 /\ shared.calls[i].depth_estimator = 1)

\* the directed edges of a face, in the order the face lists its vertices
FaceEdges(face) ==
    {<<face[i], face[(i % Len(face)) + 1]>> : i \in 1..Len(face)}

\* the number of faces that traverse the directed edge e
Traversals(m, e) == Cardinality({face \in m.faces : e \in FaceEdges(face)})

\* C3: the mesh built from a height grid of at least 2 x 2 cells is watertight
\* and consistently oriented: every edge of every face is traversed once in
\* each direction, so exactly two faces share it; faces use existing vertices
\* and no vertex twice.  A smaller grid is rejected.
C3_Watertight ==
    /\ (gpc = "built") =>
           /\ field.rows >= 2 /\ field.cols >= 2
           /\ mesh.kind = "Mesh"
           /\ mesh.faces # {}
           /\ \A i, j \in DOMAIN mesh.vertices :
                  (mesh.vertices[i] = mesh.vertices[j]) => (i = j)
           /\ \A face \in mesh.faces :
                  /\ \A i \in 1..Len(face) : face[i] \in DOMAIN mesh.vertices
                  /\ Cardinality({face[i] : i \in 1..Len(face)}) = Len(face)
                  /\ \A e \in FaceEdges(face) :
                         /\ Traversals(mesh, e) = 1
                         /\ Traversals(mesh, <<e[2], e[1]>>) = 1
    /\ (gpc = "raised") => (field.rows < 2 \/ field.cols < 2)

\* a 3 x 2 grid with a raised corner was meshed: 4 + 4 triangles, 6 quads
C3_Witness ==
    /\ gpc = "built"
    /\ field.rows = 3
    /\ field.cols = 2
    /\ field.z[<<0, 0>>] > field.z[<<2, 1>>]
    /\ Cardinality(mesh.faces) = 14
    /\ Cardinality({mesh.vertices[i] : i \in DOMAIN mesh.vertices}) = 12

============================================================================
